---- MODULE Spec2Model ----
(***************************************************************************)
(* A model of grab-licenses.py: the scan of a node_modules tree for        *)
(* package manifests, the interpretation of each manifest (homepage,       *)
(* declared license, name, version), the search for and decoding of the    *)
(* license file, the chunking of its text, and the assembly of the rows    *)
(* into a rectangular table.                                               *)
(*                                                                         *)
(* Representation.  A Python str is a sequence of characters, each a       *)
(* one-character TLA+ string; the characters are those of ASCII that a     *)
(* TLA+ string holds (1..127 but the backquote), a control character       *)
(* standing for itself in a string.  The text of a license file is a       *)
(* sequence of Unicode code points (integers), and raw file content a      *)
(* sequence of bytes (integers 0..255).  A path is the sequence of its     *)
(* components.  A JSON value (and Python's None) is a tagged record, see   *)
(* JNull..JObj.  An exception leaving a function is the tagged value       *)
(* Raise(kind).                                                            *)
(***************************************************************************)
EXTENDS Integers, Sequences, FiniteSets, TLC

(***************************************************************************)
(* Python str operations                                                   *)
(***************************************************************************)
Min(a, b) == IF a <= b THEN a ELSE b

Max(a, b) == IF a >= b THEN a ELSE b

\* s[i:] and s[:j] with 0-based Python indices 0 <= i, j <= Len(s)
Drop(s, i) == SubSeq(s, i + 1, Len(s))

Take(s, j) == SubSeq(s, 1, j)

StartsWith(s, p) == Len(s) >= Len(p) /\ Take(s, Len(p)) = p

EndsWith(s, p) == Len(s) >= Len(p) /\ Drop(s, Len(s) - Len(p)) = p

Contains(s, c) == \E i \in 1..Len(s) : s[i] = c

\* str.find(c): the 1-based position of the first c, 0 when there is none
Find(s, c) == IF Contains(s, c) THEN CHOOSE i \in 1..Len(s) : s[i] = c /\ \A j \in 1..(i - 1) : s[j] # c ELSE 0

\* str.rfind(c): the 1-based position of the last c, 0 when there is none
RFind(s, c) == IF Contains(s, c) THEN CHOOSE i \in 1..Len(s) : s[i] = c /\ \A j \in (i + 1)..Len(s) : s[j] # c ELSE 0

\* the characters str.strip() removes, those str.isspace() holds of: tab, line feed,
\* vertical tab (11), form feed, carriage return, the separators 28 to 31, and space
Whitespace == {"\t", "\n", "", "\f", "\r", "", "", "", "", " "}

RECURSIVE LStrip(_)
LStrip(s) == IF s # <<>> /\ Head(s) \in Whitespace THEN LStrip(Tail(s)) ELSE s

RECURSIVE RStrip(_)
RStrip(s) == IF s # <<>> /\ s[Len(s)] \in Whitespace THEN RStrip(Take(s, Len(s) - 1)) ELSE s

Strip(s) == RStrip(LStrip(s))

UpperCase == <<"A", "B", "C", "D", "E", "F", "G", "H", "I", "J", "K", "L", "M", "N", "O", "P", "Q", "R", "S", "T", "U", "V", "W", "X", "Y", "Z">>

LowerCase == <<"a", "b", "c", "d", "e", "f", "g", "h", "i", "j", "k", "l", "m", "n", "o", "p", "q", "r", "s", "t", "u", "v", "w", "x", "y", "z">>

LowerChar(c) == IF \E i \in 1..Len(UpperCase) : UpperCase[i] = c THEN LowerCase[CHOOSE i \in 1..Len(UpperCase) : UpperCase[i] = c] ELSE c

\* str.lower()
Lower(s) == [i \in 1..Len(s) |-> LowerChar(s[i])]

\* sep.join(parts)
RECURSIVE Join(_, _)
Join(sep, parts) == IF parts = <<>> THEN <<>> ELSE IF Len(parts) = 1 THEN parts[1] ELSE parts[1] \o sep \o Join(sep, Tail(parts))

\* "".join(parts)
Concat(parts) == Join(<<>>, parts)

(***************************************************************************)
(* JSON values as json.loads returns them, None, and a raised exception    *)
(***************************************************************************)
JNull == [t |-> "null"]

JBool(b) == [t |-> "bool", b |-> b]

JNum(n) == [t |-> "num", n |-> n]

JStr(s) == [t |-> "str", s |-> s]

JList(l) == [t |-> "list", l |-> l]

JObj(o) == [t |-> "obj", o |-> o]

Raise(kind) == [t |-> "raise", e |-> kind]

IsStr(v) == v.t = "str"

IsDict(v) == v.t = "obj"

IsList(v) == v.t = "list"

IsRaise(v) == v.t = "raise"

\* bool(v): Python's truth value
Truthy(v) == CASE v.t = "null" -> FALSE [] v.t = "bool" -> v.b [] v.t = "num" -> v.n # 0 [] v.t = "str" -> v.s # <<>> [] v.t = "list" -> v.l # <<>> [] v.t = "obj" -> DOMAIN v.o # {}

\* a or b
Or(a, b) == IF Truthy(a) THEN a ELSE b

\* d.get(key) on a dict
Get(d, key) == IF key \in DOMAIN d.o THEN d.o[key] ELSE JNull

(***************************************************************************)
(* urllib.parse.urlparse, as far as derive_homepage_from_repository reads  *)
(* it: the netloc, the path, and the hostname property.  A bracketed host  *)
(* is accepted only when it is an IPv6 address, as ipaddress reads one, or *)
(* an IPvFuture literal.                                                   *)
(***************************************************************************)
Digits == <<"0", "1", "2", "3", "4", "5", "6", "7", "8", "9">>

InSeq(c, s) == \E i \in 1..Len(s) : s[i] = c

IsAsciiAlpha(c) == InSeq(c, UpperCase) \/ InSeq(c, LowerCase)

\* _WHATWG_C0_CONTROL_OR_SPACE, the characters urlsplit strips from the left: of 0 to 31
\* and space, those a str here holds (1 to 31, and space)
C0ControlOrSpace == {"", "", "", "", "", "", "", "", "\t", "\n", "", "\f", "\r", "", "", "", "", "", "", "", "", "", "", "", "", "", "", "", "", "", "", " "}

RECURSIVE LStripC0(_)
LStripC0(s) == IF s # <<>> /\ Head(s) \in C0ControlOrSpace THEN LStripC0(Tail(s)) ELSE s

\* the end (0-based, exclusive) of the netloc that starts at index 2: the first of / ? #
NetlocEnd(u) == IF \E i \in 3..Len(u) : u[i] \in {"/", "?", "#"} THEN (CHOOSE i \in 3..Len(u) : u[i] \in {"/", "?", "#"} /\ \A j \in 3..(i - 1) : u[j] \notin {"/", "?", "#"}) - 1 ELSE Len(u)

\* s.partition(c)[0] and s.partition(c)[2]
Before(s, c) == IF Contains(s, c) THEN Take(s, Find(s, c) - 1) ELSE s

After(s, c) == IF Contains(s, c) THEN Drop(s, Find(s, c)) ELSE <<>>

\* s.split(c)
RECURSIVE Split(_, _)
Split(s, c) == IF Contains(s, c) THEN <<Before(s, c)>> \o Split(After(s, c), c) ELSE <<s>>

\* int(c, 16) of one digit; the domain is _BaseV6._HEX_DIGITS
HexValues == [c \in {"0", "1", "2", "3", "4", "5", "6", "7", "8", "9", "a", "b", "c", "d", "e", "f", "A", "B", "C", "D", "E", "F"} |->
                CASE c = "0" -> 0 [] c = "1" -> 1 [] c = "2" -> 2 [] c = "3" -> 3 [] c = "4" -> 4 [] c = "5" -> 5 [] c = "6" -> 6 [] c = "7" -> 7
                  [] c = "8" -> 8 [] c = "9" -> 9 [] c \in {"a", "A"} -> 10 [] c \in {"b", "B"} -> 11 [] c \in {"c", "C"} -> 12
                  [] c \in {"d", "D"} -> 13 [] c \in {"e", "E"} -> 14 [] OTHER -> 15]

\* int(s, 10) of a str of decimal digits
RECURSIVE DecimalValue(_)
DecimalValue(s) == IF s = <<>> THEN 0 ELSE 10 * DecimalValue(Take(s, Len(s) - 1)) + HexValues[s[Len(s)]]

\* _BaseV4._parse_octet does not raise: decimal digits, at most three, no leading zero, at most 255
IsOctet(o) == /\ o # <<>>
              /\ \A k \in 1..Len(o) : InSeq(o[k], Digits)
              /\ Len(o) <= 3
              /\ (o = <<"0">> \/ o[1] # "0")
              /\ DecimalValue(o) <= 255

\* IPv4Address(s) does not raise
IsIPv4Address(s) == /\ ~Contains(s, "/")
                    /\ s # <<>>
                    /\ Len(Split(s, ".")) = 4
                    /\ \A k \in 1..4 : IsOctet(Split(s, ".")[k])

\* '%x' % n
RECURSIVE HexOf(_)
HexOf(n) == IF n < 16 THEN <<(Digits \o <<"a", "b", "c", "d", "e", "f">>)[n + 1]>> ELSE HexOf(n \div 16) \o HexOf(n % 16)

\* _BaseV6._ip_int_from_string: the parts, an IPv4 suffix converted to the two hextets it becomes
HextetParts(parts) == IF Contains(parts[Len(parts)], ".")
                      THEN Take(parts, Len(parts) - 1) \o <<HexOf(256 * DecimalValue(Split(parts[Len(parts)], ".")[1]) + DecimalValue(Split(parts[Len(parts)], ".")[2])),
                                                            HexOf(256 * DecimalValue(Split(parts[Len(parts)], ".")[3]) + DecimalValue(Split(parts[Len(parts)], ".")[4]))>>
                      ELSE parts

\* _BaseV6._parse_hextet does not raise: hex digits, at most four, and int() takes no empty str
IsHextet(h) == h # <<>> /\ Len(h) <= 4 /\ \A k \in 1..Len(h) : h[k] \in DOMAIN HexValues

\* the empty parts other than the first and the last: where '::' stands
SkipIndices(parts) == {k \in 2..(Len(parts) - 1) : parts[k] = <<>>}

\* parts_hi and parts_lo for the '::' at part k
PartsHi(parts, k) == IF parts[1] = <<>> THEN k - 2 ELSE k - 1

PartsLo(parts, k) == IF parts[Len(parts)] = <<>> THEN Len(parts) - k - 1 ELSE Len(parts) - k

\* the parts around a '::' at part k are an address
ValidAroundSkip(parts, k) == /\ (parts[1] = <<>> => PartsHi(parts, k) = 0)
                             /\ (parts[Len(parts)] = <<>> => PartsLo(parts, k) = 0)
                             /\ 8 - (PartsHi(parts, k) + PartsLo(parts, k)) >= 1
                             /\ \A j \in 1..PartsHi(parts, k) : IsHextet(parts[j])
                             /\ \A j \in (Len(parts) - PartsLo(parts, k) + 1)..Len(parts) : IsHextet(parts[j])

\* the converted parts are an address: at most nine, at most one '::', eight without it
ValidHextetParts(parts) == /\ Len(parts) <= 9
                           /\ Cardinality(SkipIndices(parts)) <= 1
                           /\ IF SkipIndices(parts) # {} THEN \A k \in SkipIndices(parts) : ValidAroundSkip(parts, k)
                              ELSE Len(parts) = 8 /\ \A j \in 1..8 : IsHextet(parts[j])

\* _BaseV6._ip_int_from_string does not raise
ValidV6Parts(parts) == /\ Len(parts) >= 3
                       /\ (Contains(parts[Len(parts)], ".") => IsIPv4Address(parts[Len(parts)]))
                       /\ ValidHextetParts(HextetParts(parts))

\* IPv6Address(s) does not raise: no slash, a scope id that is not empty and holds no %, an address before it
IsIPv6Address(s) == /\ ~Contains(s, "/")
                    /\ (Contains(s, "%") => After(s, "%") # <<>> /\ ~Contains(After(s, "%"), "%"))
                    /\ Before(s, "%") # <<>>
                    /\ ValidV6Parts(Split(Before(s, "%"), ":"))

\* re.match(r"\Av[a-fA-F0-9]+\..+\Z", hostname): hex digits up to the first dot, then a rest without a line feed
IsIPvFuture(h) == /\ StartsWith(h, <<"v">>)
                  /\ Contains(h, ".")
                  /\ Before(Tail(h), ".") # <<>>
                  /\ \A k \in 1..Len(Before(Tail(h), ".")) : Before(Tail(h), ".")[k] \in DOMAIN HexValues
                  /\ After(h, ".") # <<>>
                  /\ ~Contains(After(h, "."), "\n")

\* _check_bracketed_host does not raise: an IPvFuture literal, or an address that is IPv6 and not IPv4
BracketedHostOk(hostname) == IF StartsWith(hostname, <<"v">>) THEN IsIPvFuture(hostname)
                             ELSE ~IsIPv4Address(hostname) /\ IsIPv6Address(hostname)

\* _NetlocResultMixinStr._hostinfo: the host part of what follows the last @
HostPart(hostinfo) == IF Contains(hostinfo, "[") THEN Before(After(hostinfo, "["), "]") ELSE Before(hostinfo, ":")

\* the host lowercased up to a zone separator; <<>> stands for None
LowerHost(name) == IF name = <<>> THEN <<>>
                   ELSE Lower(Before(name, "%")) \o (IF Contains(name, "%") THEN <<"%">> \o After(name, "%") ELSE <<>>)

\* _NetlocResultMixinStr.hostname
Hostname(netloc) == LowerHost(HostPart(IF Contains(netloc, "@") THEN Drop(netloc, RFind(netloc, "@")) ELSE netloc))

\* uses_params
uses_params == {<<>>, <<"f", "t", "p">>, <<"h", "d", "l">>, <<"p", "r", "o", "s", "p", "e", "r", "o">>, <<"h", "t", "t", "p">>, <<"i", "m", "a", "p">>, <<"h", "t", "t", "p", "s">>, <<"s", "h", "t", "t", "p">>, <<"r", "t", "s", "p">>, <<"r", "t", "s", "p", "s">>, <<"r", "t", "s", "p", "u">>, <<"s", "i", "p">>, <<"s", "i", "p", "s">>, <<"m", "m", "s">>, <<"s", "f", "t", "p">>, <<"t", "e", "l">>}

\* _splitparams(url)[0]: the path up to the first ; of its last segment
WithoutParams(p) == IF Contains(p, "/") THEN Take(p, RFind(p, "/") - 1) \o Before(Drop(p, RFind(p, "/") - 1), ";") ELSE Before(p, ";")

\* urlsplit once scheme and netloc are split off: fragment and query leave the path, and for a
\* scheme of uses_params the parameters do
UrlResult(scheme, netloc, rest) == [t |-> "url", scheme |-> scheme, netloc |-> netloc,
                                    path |-> IF scheme \in uses_params THEN WithoutParams(Before(Before(rest, "#"), "?")) ELSE Before(Before(rest, "#"), "?"),
                                    hostname |-> Hostname(netloc)]

\* the checks of the brackets of a netloc
UrlChecked(scheme, netloc, rest) ==
    IF Contains(netloc, "[") # Contains(netloc, "]") THEN Raise("ValueError")
    ELSE IF Contains(netloc, "[") /\ ~BracketedHostOk(Before(After(netloc, "["), "]")) THEN Raise("ValueError")
    ELSE UrlResult(scheme, netloc, rest)

UrlFromNetloc(scheme, u) == IF StartsWith(u, <<"/", "/">>) THEN UrlChecked(scheme, SubSeq(u, 3, NetlocEnd(u)), Drop(u, NetlocEnd(u)))
                            ELSE UrlResult(scheme, <<>>, u)

\* a scheme is split off: the first character a letter, and up to the colon only scheme_chars
HasScheme(u) == Find(u, ":") > 1 /\ IsAsciiAlpha(u[1]) /\ \A k \in 1..(Find(u, ":") - 1) : IsAsciiAlpha(u[k]) \/ InSeq(u[k], Digits) \/ u[k] \in {"+", "-", "."}

UrlFromScheme(u) == IF HasScheme(u) THEN UrlFromNetloc(Lower(Take(u, Find(u, ":") - 1)), Drop(u, Find(u, ":")))
                    ELSE UrlFromNetloc(<<>>, u)

\* the url is stripped on the left, and loses its tabs, carriage returns and line feeds
urlparse(url) == UrlFromScheme(SelectSeq(LStripC0(url), LAMBDA c : c \notin {"\t", "\r", "\n"}))

(***************************************************************************)
(* derive_homepage_from_repository                                         *)
(***************************************************************************)
StripDotGit(p) == IF EndsWith(p, <<".", "g", "i", "t">>) THEN Take(p, Len(p) - 4) ELSE p

HttpsPrefix == <<"h", "t", "t", "p", "s", ":", "/", "/">>

HttpPrefix == <<"h", "t", "t", "p", ":", "/", "/">>

GitAtHost(url) == Before(Drop(url, 4), ":")

\* group 2 of the match: what follows the first colon, up to a line feed that ends the url ($ matches before it)
GitAtPath(url) == IF EndsWith(After(Drop(url, 4), ":"), <<"\n">>) THEN Take(After(Drop(url, 4), ":"), Len(After(Drop(url, 4), ":")) - 1)
                  ELSE After(Drop(url, 4), ":")

\* re.match(r"^git@([^:]+):(.+)$", url): the host runs to the first colon, and
\* the path is the rest, which . does not match across a line feed
GitAtMatches(url) == /\ StartsWith(url, <<"g", "i", "t", "@">>)
                     /\ Find(Drop(url, 4), ":") > 1
                     /\ GitAtPath(url) # <<>>
                     /\ ~Contains(GitAtPath(url), "\n")

host_map == [k \in {<<"g", "i", "t", "h", "u", "b">>, <<"g", "i", "t", "l", "a", "b">>, <<"b", "i", "t", "b", "u", "c", "k", "e", "t">>} |->
               CASE k = <<"g", "i", "t", "h", "u", "b">> -> <<"g", "i", "t", "h", "u", "b", ".", "c", "o", "m">>
                 [] k = <<"g", "i", "t", "l", "a", "b">> -> <<"g", "i", "t", "l", "a", "b", ".", "c", "o", "m">>
                 [] OTHER -> <<"b", "i", "t", "b", "u", "c", "k", "e", "t", ".", "o", "r", "g">>]

\* lines 157-171: the http(s) rule, then the host-key shorthand, then None
HttpOrShorthand(url) == IF StartsWith(url, HttpPrefix) \/ StartsWith(url, HttpsPrefix) THEN JStr(StripDotGit(url))
                        ELSE IF Contains(url, ":") /\ Lower(Before(url, ":")) \in DOMAIN host_map /\ After(url, ":") # <<>>
                             THEN JStr(HttpsPrefix \o host_map[Lower(Before(url, ":"))] \o <<"/">> \o After(url, ":"))
                        ELSE JNull

\* lines 148-171: the git@host:path rule and what follows it
GitAtOrLater(url) == IF GitAtMatches(url) THEN JStr(HttpsPrefix \o GitAtHost(url) \o <<"/">> \o StripDotGit(GitAtPath(url)))
                     ELSE HttpOrShorthand(url)

\* lines 137-146: the path of an ssh:// URL, its leading slash and trailing .git removed
SshPath(parsed) == StripDotGit(IF StartsWith(parsed.path, <<"/">>) THEN Tail(parsed.path) ELSE parsed.path)

\* lines 137-146: the ssh:// rule, which falls through when host or path is empty
SshRule(url, parsed) == IF IsRaise(parsed) THEN parsed
                        ELSE IF parsed.hostname # <<>> /\ SshPath(parsed) # <<>> THEN JStr(HttpsPrefix \o parsed.hostname \o <<"/">> \o SshPath(parsed))
                        ELSE GitAtOrLater(url)

\* lines 137-171
FromSchemes(url) == IF StartsWith(url, <<"s", "s", "h", ":", "/", "/">>) THEN SshRule(url, urlparse(url)) ELSE GitAtOrLater(url)

\* lines 130-171, on the stripped url
NormalizeUrl(url) == IF url = <<>> THEN JNull
                     ELSE IF StartsWith(url, <<"g", "i", "t", "+">>) THEN FromSchemes(Drop(url, 4))
                     ELSE FromSchemes(url)

\* line 124: (repo_val.get("url") or "").strip()
FromUrlField(u) == IF ~IsStr(u) THEN Raise("AttributeError") ELSE NormalizeUrl(Strip(u.s))

derive_homepage_from_repository(repo_val) ==
    IF repo_val.t = "null" THEN JNull
    ELSE IF IsDict(repo_val) THEN FromUrlField(Or(Get(repo_val, "url"), JStr(<<>>)))
    ELSE IF IsStr(repo_val) THEN NormalizeUrl(Strip(repo_val.s))
    ELSE JNull

(***************************************************************************)
(* get_homepage                                                            *)
(***************************************************************************)
\* lines 245-247
DerivedOrNone(derived) == IF IsRaise(derived) THEN derived ELSE IF Truthy(derived) THEN derived ELSE JNull

get_homepage(data) ==
    IF ~Truthy(data) THEN JNull
    ELSE IF ~IsDict(data) THEN Raise("AttributeError")
    ELSE IF IsStr(Get(data, "homepage")) /\ Strip(Get(data, "homepage").s) # <<>> THEN JStr(Strip(Get(data, "homepage").s))
    ELSE DerivedOrNone(derive_homepage_from_repository(Get(data, "repository")))

(***************************************************************************)
(* extract_license_value                                                   *)
(***************************************************************************)
LicenseKeys == <<"type", "name", "spdx", "value">>

\* lines 191-194: the loop over the sub-keys of a dict-valued license
RECURSIVE FirstStringKey(_, _)
FirstStringKey(lic, keys) ==
    IF keys = <<>> THEN JNull
    ELSE IF IsStr(Get(lic, Head(keys))) /\ Strip(Get(lic, Head(keys)).s) # <<>> THEN JStr(Strip(Get(lic, Head(keys)).s))
    ELSE FirstStringKey(lic, Tail(keys))

\* lines 186-194: what lic gives, JNull when the code goes on to licenses
FromLic(lic) == IF IsStr(lic) THEN (IF Strip(lic.s) # <<>> THEN JStr(Strip(lic.s)) ELSE JNull)
                ELSE IF IsDict(lic) THEN FirstStringKey(lic, LicenseKeys)
                ELSE JNull

\* line 185 without its alternative spelling: lic = data.get("license")
FromLicenseOnly(data) == FromLic(Get(data, "license"))

\* line 185
FromLicenseField(data) == FromLic(Or(Get(data, "license"), Get(data, "licence")))

\* lines 206-207
StringValue(v) == IF IsStr(v) /\ Strip(v.s) # <<>> THEN <<Strip(v.s)>> ELSE <<>>

\* lines 200-207: the values one entry of licenses appends to vals
ItemValues(item) ==
    IF IsStr(item) THEN StringValue(item)
    ELSE IF IsDict(item) THEN StringValue(Or(Or(Or(Get(item, "type"), Get(item, "name")), Get(item, "spdx")), Get(item, "value")))
    ELSE <<>>

RECURSIVE CollectValues(_)
CollectValues(items) == IF items = <<>> THEN <<>> ELSE ItemValues(Head(items)) \o CollectValues(Tail(items))

\* lines 197-211
FromLicenses(licenses) == IF IsList(licenses) /\ licenses.l # <<>> /\ CollectValues(licenses.l) # <<>>
                          THEN JStr(Join(<<";", " ">>, CollectValues(licenses.l)))
                          ELSE JNull

\* the result of lines 185-194 if there is one, else that of lines 196-211
FirstOr(first, data) == IF first.t # "null" THEN first ELSE FromLicenses(Get(data, "licenses"))

extract_license_value(data) ==
    IF ~Truthy(data) THEN JNull
    ELSE IF ~IsDict(data) THEN Raise("AttributeError")
    ELSE FirstOr(FromLicenseField(data), data)

(***************************************************************************)
(* bytes.decode("utf-8"), strict and with errors="replace", and latin-1    *)
(***************************************************************************)
ReplacementChar == 65533

IsContinuation(b) == b >= 128 /\ b <= 191

\* the length of the sequence a lead byte announces, 0 for a byte that cannot lead
SequenceLength(b1) == IF b1 < 128 THEN 1
                      ELSE IF b1 >= 194 /\ b1 <= 223 THEN 2
                      ELSE IF b1 >= 224 /\ b1 <= 239 THEN 3
                      ELSE IF b1 >= 240 /\ b1 <= 244 THEN 4
                      ELSE 0

\* the second byte a lead byte admits (no overlong forms, no surrogates, at most U+10FFFF)
SecondByteOk(b1, b2) == CASE b1 = 224 -> b2 >= 160 /\ b2 <= 191
                          [] b1 = 237 -> b2 >= 128 /\ b2 <= 159
                          [] b1 = 240 -> b2 >= 144 /\ b2 <= 191
                          [] b1 = 244 -> b2 >= 128 /\ b2 <= 143
                          [] OTHER -> IsContinuation(b2)

\* how many of the leading bytes of b form a valid prefix of the sequence b[1] announces
ValidPrefix(b) == LET n == SequenceLength(b[1])
                  IN  IF n = 0 THEN 0
                      ELSE IF n = 1 \/ Len(b) < 2 \/ ~SecondByteOk(b[1], b[2]) THEN 1
                      ELSE IF n = 2 \/ Len(b) < 3 \/ ~IsContinuation(b[3]) THEN 2
                      ELSE IF n = 3 \/ Len(b) < 4 \/ ~IsContinuation(b[4]) THEN 3
                      ELSE 4

\* whether b starts with a complete well-formed sequence
LeadsValid(b) == SequenceLength(b[1]) > 0 /\ ValidPrefix(b) = SequenceLength(b[1])

CodePoint(b) == CASE SequenceLength(b[1]) = 1 -> b[1]
                  [] SequenceLength(b[1]) = 2 -> (b[1] % 32) * 64 + (b[2] % 64)
                  [] SequenceLength(b[1]) = 3 -> (b[1] % 16) * 4096 + (b[2] % 64) * 64 + (b[3] % 64)
                  [] OTHER -> (b[1] % 8) * 262144 + (b[2] % 64) * 4096 + (b[3] % 64) * 64 + (b[4] % 64)

\* data.decode("utf-8", errors="replace"): each maximal ill-formed prefix gives one U+FFFD
RECURSIVE DecodeUtf8Replace(_)
DecodeUtf8Replace(b) == IF b = <<>> THEN <<>>
                        ELSE IF LeadsValid(b) THEN <<CodePoint(b)>> \o DecodeUtf8Replace(Drop(b, SequenceLength(b[1])))
                        ELSE <<ReplacementChar>> \o DecodeUtf8Replace(Drop(b, Max(1, ValidPrefix(b))))

\* whether raw.decode("utf-8") succeeds
RECURSIVE IsValidUtf8(_)
IsValidUtf8(b) == IF b = <<>> THEN TRUE
                  ELSE LeadsValid(b) /\ IsValidUtf8(Drop(b, SequenceLength(b[1])))

\* raw.decode("latin-1", errors="replace"): every byte is its own code point
DecodeLatin1(b) == b

(***************************************************************************)
(* is_probably_text and read_text_file                                     *)
(***************************************************************************)
Count(s, c) == Cardinality({i \in 1..Len(s) : s[i] = c})

\* replacements < max(5, len(text) * 0.002), in thousandths
is_probably_text(data) == /\ ~\E i \in 1..Len(data) : data[i] = 0
                          /\ Count(DecodeUtf8Replace(data), ReplacementChar) * 1000 < Max(5000, Len(DecodeUtf8Replace(data)) * 2)

\* read_text_file on the bytes read from the file
read_text(raw) == IF ~is_probably_text(raw) THEN Raise("ValueError")
                  ELSE IF IsValidUtf8(raw) THEN [t |-> "text", s |-> DecodeUtf8Replace(raw)]
                  ELSE [t |-> "text", s |-> DecodeLatin1(raw)]

(***************************************************************************)
(* unicodedata.normalize("NFC", s), with the tables unicodedata holds (the *)
(* Unicode Character Database, version 14.0.0): the canonical              *)
(* decomposition mappings, the canonical combining classes and the primary *)
(* composites.  Hangul syllables are decomposed and composed by            *)
(* arithmetic.                                                             *)
(***************************************************************************)
\* unicodedata.decomposition, the canonical mappings: rows <<c, first, second>> sorted on c,
\* second being 0 when c is mapped to one character
CanonicalMappings == <<
    <<192, 65, 768>>, <<193, 65, 769>>, <<194, 65, 770>>, <<195, 65, 771>>, <<196, 65, 776>>, <<197, 65, 778>>, <<199, 67, 807>>, <<200, 69, 768>>,
    <<201, 69, 769>>, <<202, 69, 770>>, <<203, 69, 776>>, <<204, 73, 768>>, <<205, 73, 769>>, <<206, 73, 770>>, <<207, 73, 776>>, <<209, 78, 771>>,
    <<210, 79, 768>>, <<211, 79, 769>>, <<212, 79, 770>>, <<213, 79, 771>>, <<214, 79, 776>>, <<217, 85, 768>>, <<218, 85, 769>>, <<219, 85, 770>>,
    <<220, 85, 776>>, <<221, 89, 769>>, <<224, 97, 768>>, <<225, 97, 769>>, <<226, 97, 770>>, <<227, 97, 771>>, <<228, 97, 776>>, <<229, 97, 778>>,
    <<231, 99, 807>>, <<232, 101, 768>>, <<233, 101, 769>>, <<234, 101, 770>>, <<235, 101, 776>>, <<236, 105, 768>>, <<237, 105, 769>>,
    <<238, 105, 770>>, <<239, 105, 776>>, <<241, 110, 771>>, <<242, 111, 768>>, <<243, 111, 769>>, <<244, 111, 770>>, <<245, 111, 771>>,
    <<246, 111, 776>>, <<249, 117, 768>>, <<250, 117, 769>>, <<251, 117, 770>>, <<252, 117, 776>>, <<253, 121, 769>>, <<255, 121, 776>>,
    <<256, 65, 772>>, <<257, 97, 772>>, <<258, 65, 774>>, <<259, 97, 774>>, <<260, 65, 808>>, <<261, 97, 808>>, <<262, 67, 769>>, <<263, 99, 769>>,
    <<264, 67, 770>>, <<265, 99, 770>>, <<266, 67, 775>>, <<267, 99, 775>>, <<268, 67, 780>>, <<269, 99, 780>>, <<270, 68, 780>>, <<271, 100, 780>>,
    <<274, 69, 772>>, <<275, 101, 772>>, <<276, 69, 774>>, <<277, 101, 774>>, <<278, 69, 775>>, <<279, 101, 775>>, <<280, 69, 808>>,
    <<281, 101, 808>>, <<282, 69, 780>>, <<283, 101, 780>>, <<284, 71, 770>>, <<285, 103, 770>>, <<286, 71, 774>>, <<287, 103, 774>>,
    <<288, 71, 775>>, <<289, 103, 775>>, <<290, 71, 807>>, <<291, 103, 807>>, <<292, 72, 770>>, <<293, 104, 770>>, <<296, 73, 771>>,
    <<297, 105, 771>>, <<298, 73, 772>>, <<299, 105, 772>>, <<300, 73, 774>>, <<301, 105, 774>>, <<302, 73, 808>>, <<303, 105, 808>>,
    <<304, 73, 775>>, <<308, 74, 770>>, <<309, 106, 770>>, <<310, 75, 807>>, <<311, 107, 807>>, <<313, 76, 769>>, <<314, 108, 769>>,
    <<315, 76, 807>>, <<316, 108, 807>>, <<317, 76, 780>>, <<318, 108, 780>>, <<323, 78, 769>>, <<324, 110, 769>>, <<325, 78, 807>>,
    <<326, 110, 807>>, <<327, 78, 780>>, <<328, 110, 780>>, <<332, 79, 772>>, <<333, 111, 772>>, <<334, 79, 774>>, <<335, 111, 774>>,
    <<336, 79, 779>>, <<337, 111, 779>>, <<340, 82, 769>>, <<341, 114, 769>>, <<342, 82, 807>>, <<343, 114, 807>>, <<344, 82, 780>>,
    <<345, 114, 780>>, <<346, 83, 769>>, <<347, 115, 769>>, <<348, 83, 770>>, <<349, 115, 770>>, <<350, 83, 807>>, <<351, 115, 807>>,
    <<352, 83, 780>>, <<353, 115, 780>>, <<354, 84, 807>>, <<355, 116, 807>>, <<356, 84, 780>>, <<357, 116, 780>>, <<360, 85, 771>>,
    <<361, 117, 771>>, <<362, 85, 772>>, <<363, 117, 772>>, <<364, 85, 774>>, <<365, 117, 774>>, <<366, 85, 778>>, <<367, 117, 778>>,
    <<368, 85, 779>>, <<369, 117, 779>>, <<370, 85, 808>>, <<371, 117, 808>>, <<372, 87, 770>>, <<373, 119, 770>>, <<374, 89, 770>>,
    <<375, 121, 770>>, <<376, 89, 776>>, <<377, 90, 769>>, <<378, 122, 769>>, <<379, 90, 775>>, <<380, 122, 775>>, <<381, 90, 780>>,
    <<382, 122, 780>>, <<416, 79, 795>>, <<417, 111, 795>>, <<431, 85, 795>>, <<432, 117, 795>>, <<461, 65, 780>>, <<462, 97, 780>>,
    <<463, 73, 780>>, <<464, 105, 780>>, <<465, 79, 780>>, <<466, 111, 780>>, <<467, 85, 780>>, <<468, 117, 780>>, <<469, 220, 772>>,
    <<470, 252, 772>>, <<471, 220, 769>>, <<472, 252, 769>>, <<473, 220, 780>>, <<474, 252, 780>>, <<475, 220, 768>>, <<476, 252, 768>>,
    <<478, 196, 772>>, <<479, 228, 772>>, <<480, 550, 772>>, <<481, 551, 772>>, <<482, 198, 772>>, <<483, 230, 772>>, <<486, 71, 780>>,
    <<487, 103, 780>>, <<488, 75, 780>>, <<489, 107, 780>>, <<490, 79, 808>>, <<491, 111, 808>>, <<492, 490, 772>>, <<493, 491, 772>>,
    <<494, 439, 780>>, <<495, 658, 780>>, <<496, 106, 780>>, <<500, 71, 769>>, <<501, 103, 769>>, <<504, 78, 768>>, <<505, 110, 768>>,
    <<506, 197, 769>>, <<507, 229, 769>>, <<508, 198, 769>>, <<509, 230, 769>>, <<510, 216, 769>>, <<511, 248, 769>>, <<512, 65, 783>>,
    <<513, 97, 783>>, <<514, 65, 785>>, <<515, 97, 785>>, <<516, 69, 783>>, <<517, 101, 783>>, <<518, 69, 785>>, <<519, 101, 785>>, <<520, 73, 783>>,
    <<521, 105, 783>>, <<522, 73, 785>>, <<523, 105, 785>>, <<524, 79, 783>>, <<525, 111, 783>>, <<526, 79, 785>>, <<527, 111, 785>>,
    <<528, 82, 783>>, <<529, 114, 783>>, <<530, 82, 785>>, <<531, 114, 785>>, <<532, 85, 783>>, <<533, 117, 783>>, <<534, 85, 785>>,
    <<535, 117, 785>>, <<536, 83, 806>>, <<537, 115, 806>>, <<538, 84, 806>>, <<539, 116, 806>>, <<542, 72, 780>>, <<543, 104, 780>>,
    <<550, 65, 775>>, <<551, 97, 775>>, <<552, 69, 807>>, <<553, 101, 807>>, <<554, 214, 772>>, <<555, 246, 772>>, <<556, 213, 772>>,
    <<557, 245, 772>>, <<558, 79, 775>>, <<559, 111, 775>>, <<560, 558, 772>>, <<561, 559, 772>>, <<562, 89, 772>>, <<563, 121, 772>>,
    <<832, 768, 0>>, <<833, 769, 0>>, <<835, 787, 0>>, <<836, 776, 769>>, <<884, 697, 0>>, <<894, 59, 0>>, <<901, 168, 769>>, <<902, 913, 769>>,
    <<903, 183, 0>>, <<904, 917, 769>>, <<905, 919, 769>>, <<906, 921, 769>>, <<908, 927, 769>>, <<910, 933, 769>>, <<911, 937, 769>>,
    <<912, 970, 769>>, <<938, 921, 776>>, <<939, 933, 776>>, <<940, 945, 769>>, <<941, 949, 769>>, <<942, 951, 769>>, <<943, 953, 769>>,
    <<944, 971, 769>>, <<970, 953, 776>>, <<971, 965, 776>>, <<972, 959, 769>>, <<973, 965, 769>>, <<974, 969, 769>>, <<979, 978, 769>>,
    <<980, 978, 776>>, <<1024, 1045, 768>>, <<1025, 1045, 776>>, <<1027, 1043, 769>>, <<1031, 1030, 776>>, <<1036, 1050, 769>>, <<1037, 1048, 768>>,
    <<1038, 1059, 774>>, <<1049, 1048, 774>>, <<1081, 1080, 774>>, <<1104, 1077, 768>>, <<1105, 1077, 776>>, <<1107, 1075, 769>>,
    <<1111, 1110, 776>>, <<1116, 1082, 769>>, <<1117, 1080, 768>>, <<1118, 1091, 774>>, <<1142, 1140, 783>>, <<1143, 1141, 783>>,
    <<1217, 1046, 774>>, <<1218, 1078, 774>>, <<1232, 1040, 774>>, <<1233, 1072, 774>>, <<1234, 1040, 776>>, <<1235, 1072, 776>>,
    <<1238, 1045, 774>>, <<1239, 1077, 774>>, <<1242, 1240, 776>>, <<1243, 1241, 776>>, <<1244, 1046, 776>>, <<1245, 1078, 776>>,
    <<1246, 1047, 776>>, <<1247, 1079, 776>>, <<1250, 1048, 772>>, <<1251, 1080, 772>>, <<1252, 1048, 776>>, <<1253, 1080, 776>>,
    <<1254, 1054, 776>>, <<1255, 1086, 776>>, <<1258, 1256, 776>>, <<1259, 1257, 776>>, <<1260, 1069, 776>>, <<1261, 1101, 776>>,
    <<1262, 1059, 772>>, <<1263, 1091, 772>>, <<1264, 1059, 776>>, <<1265, 1091, 776>>, <<1266, 1059, 779>>, <<1267, 1091, 779>>,
    <<1268, 1063, 776>>, <<1269, 1095, 776>>, <<1272, 1067, 776>>, <<1273, 1099, 776>>, <<1570, 1575, 1619>>, <<1571, 1575, 1620>>,
    <<1572, 1608, 1620>>, <<1573, 1575, 1621>>, <<1574, 1610, 1620>>, <<1728, 1749, 1620>>, <<1730, 1729, 1620>>, <<1747, 1746, 1620>>,
    <<2345, 2344, 2364>>, <<2353, 2352, 2364>>, <<2356, 2355, 2364>>, <<2392, 2325, 2364>>, <<2393, 2326, 2364>>, <<2394, 2327, 2364>>,
    <<2395, 2332, 2364>>, <<2396, 2337, 2364>>, <<2397, 2338, 2364>>, <<2398, 2347, 2364>>, <<2399, 2351, 2364>>, <<2507, 2503, 2494>>,
    <<2508, 2503, 2519>>, <<2524, 2465, 2492>>, <<2525, 2466, 2492>>, <<2527, 2479, 2492>>, <<2611, 2610, 2620>>, <<2614, 2616, 2620>>,
    <<2649, 2582, 2620>>, <<2650, 2583, 2620>>, <<2651, 2588, 2620>>, <<2654, 2603, 2620>>, <<2888, 2887, 2902>>, <<2891, 2887, 2878>>,
    <<2892, 2887, 2903>>, <<2908, 2849, 2876>>, <<2909, 2850, 2876>>, <<2964, 2962, 3031>>, <<3018, 3014, 3006>>, <<3019, 3015, 3006>>,
    <<3020, 3014, 3031>>, <<3144, 3142, 3158>>, <<3264, 3263, 3285>>, <<3271, 3270, 3285>>, <<3272, 3270, 3286>>, <<3274, 3270, 3266>>,
    <<3275, 3274, 3285>>, <<3402, 3398, 3390>>, <<3403, 3399, 3390>>, <<3404, 3398, 3415>>, <<3546, 3545, 3530>>, <<3548, 3545, 3535>>,
    <<3549, 3548, 3530>>, <<3550, 3545, 3551>>, <<3907, 3906, 4023>>, <<3917, 3916, 4023>>, <<3922, 3921, 4023>>, <<3927, 3926, 4023>>,
    <<3932, 3931, 4023>>, <<3945, 3904, 4021>>, <<3955, 3953, 3954>>, <<3957, 3953, 3956>>, <<3958, 4018, 3968>>, <<3960, 4019, 3968>>,
    <<3969, 3953, 3968>>, <<3987, 3986, 4023>>, <<3997, 3996, 4023>>, <<4002, 4001, 4023>>, <<4007, 4006, 4023>>, <<4012, 4011, 4023>>,
    <<4025, 3984, 4021>>, <<4134, 4133, 4142>>, <<6918, 6917, 6965>>, <<6920, 6919, 6965>>, <<6922, 6921, 6965>>, <<6924, 6923, 6965>>,
    <<6926, 6925, 6965>>, <<6930, 6929, 6965>>, <<6971, 6970, 6965>>, <<6973, 6972, 6965>>, <<6976, 6974, 6965>>, <<6977, 6975, 6965>>,
    <<6979, 6978, 6965>>, <<7680, 65, 805>>, <<7681, 97, 805>>, <<7682, 66, 775>>, <<7683, 98, 775>>, <<7684, 66, 803>>, <<7685, 98, 803>>,
    <<7686, 66, 817>>, <<7687, 98, 817>>, <<7688, 199, 769>>, <<7689, 231, 769>>, <<7690, 68, 775>>, <<7691, 100, 775>>, <<7692, 68, 803>>,
    <<7693, 100, 803>>, <<7694, 68, 817>>, <<7695, 100, 817>>, <<7696, 68, 807>>, <<7697, 100, 807>>, <<7698, 68, 813>>, <<7699, 100, 813>>,
    <<7700, 274, 768>>, <<7701, 275, 768>>, <<7702, 274, 769>>, <<7703, 275, 769>>, <<7704, 69, 813>>, <<7705, 101, 813>>, <<7706, 69, 816>>,
    <<7707, 101, 816>>, <<7708, 552, 774>>, <<7709, 553, 774>>, <<7710, 70, 775>>, <<7711, 102, 775>>, <<7712, 71, 772>>, <<7713, 103, 772>>,
    <<7714, 72, 775>>, <<7715, 104, 775>>, <<7716, 72, 803>>, <<7717, 104, 803>>, <<7718, 72, 776>>, <<7719, 104, 776>>, <<7720, 72, 807>>,
    <<7721, 104, 807>>, <<7722, 72, 814>>, <<7723, 104, 814>>, <<7724, 73, 816>>, <<7725, 105, 816>>, <<7726, 207, 769>>, <<7727, 239, 769>>,
    <<7728, 75, 769>>, <<7729, 107, 769>>, <<7730, 75, 803>>, <<7731, 107, 803>>, <<7732, 75, 817>>, <<7733, 107, 817>>, <<7734, 76, 803>>,
    <<7735, 108, 803>>, <<7736, 7734, 772>>, <<7737, 7735, 772>>, <<7738, 76, 817>>, <<7739, 108, 817>>, <<7740, 76, 813>>, <<7741, 108, 813>>,
    <<7742, 77, 769>>, <<7743, 109, 769>>, <<7744, 77, 775>>, <<7745, 109, 775>>, <<7746, 77, 803>>, <<7747, 109, 803>>, <<7748, 78, 775>>,
    <<7749, 110, 775>>, <<7750, 78, 803>>, <<7751, 110, 803>>, <<7752, 78, 817>>, <<7753, 110, 817>>, <<7754, 78, 813>>, <<7755, 110, 813>>,
    <<7756, 213, 769>>, <<7757, 245, 769>>, <<7758, 213, 776>>, <<7759, 245, 776>>, <<7760, 332, 768>>, <<7761, 333, 768>>, <<7762, 332, 769>>,
    <<7763, 333, 769>>, <<7764, 80, 769>>, <<7765, 112, 769>>, <<7766, 80, 775>>, <<7767, 112, 775>>, <<7768, 82, 775>>, <<7769, 114, 775>>,
    <<7770, 82, 803>>, <<7771, 114, 803>>, <<7772, 7770, 772>>, <<7773, 7771, 772>>, <<7774, 82, 817>>, <<7775, 114, 817>>, <<7776, 83, 775>>,
    <<7777, 115, 775>>, <<7778, 83, 803>>, <<7779, 115, 803>>, <<7780, 346, 775>>, <<7781, 347, 775>>, <<7782, 352, 775>>, <<7783, 353, 775>>,
    <<7784, 7778, 775>>, <<7785, 7779, 775>>, <<7786, 84, 775>>, <<7787, 116, 775>>, <<7788, 84, 803>>, <<7789, 116, 803>>, <<7790, 84, 817>>,
    <<7791, 116, 817>>, <<7792, 84, 813>>, <<7793, 116, 813>>, <<7794, 85, 804>>, <<7795, 117, 804>>, <<7796, 85, 816>>, <<7797, 117, 816>>,
    <<7798, 85, 813>>, <<7799, 117, 813>>, <<7800, 360, 769>>, <<7801, 361, 769>>, <<7802, 362, 776>>, <<7803, 363, 776>>, <<7804, 86, 771>>,
    <<7805, 118, 771>>, <<7806, 86, 803>>, <<7807, 118, 803>>, <<7808, 87, 768>>, <<7809, 119, 768>>, <<7810, 87, 769>>, <<7811, 119, 769>>,
    <<7812, 87, 776>>, <<7813, 119, 776>>, <<7814, 87, 775>>, <<7815, 119, 775>>, <<7816, 87, 803>>, <<7817, 119, 803>>, <<7818, 88, 775>>,
    <<7819, 120, 775>>, <<7820, 88, 776>>, <<7821, 120, 776>>, <<7822, 89, 775>>, <<7823, 121, 775>>, <<7824, 90, 770>>, <<7825, 122, 770>>,
    <<7826, 90, 803>>, <<7827, 122, 803>>, <<7828, 90, 817>>, <<7829, 122, 817>>, <<7830, 104, 817>>, <<7831, 116, 776>>, <<7832, 119, 778>>,
    <<7833, 121, 778>>, <<7835, 383, 775>>, <<7840, 65, 803>>, <<7841, 97, 803>>, <<7842, 65, 777>>, <<7843, 97, 777>>, <<7844, 194, 769>>,
    <<7845, 226, 769>>, <<7846, 194, 768>>, <<7847, 226, 768>>, <<7848, 194, 777>>, <<7849, 226, 777>>, <<7850, 194, 771>>, <<7851, 226, 771>>,
    <<7852, 7840, 770>>, <<7853, 7841, 770>>, <<7854, 258, 769>>, <<7855, 259, 769>>, <<7856, 258, 768>>, <<7857, 259, 768>>, <<7858, 258, 777>>,
    <<7859, 259, 777>>, <<7860, 258, 771>>, <<7861, 259, 771>>, <<7862, 7840, 774>>, <<7863, 7841, 774>>, <<7864, 69, 803>>, <<7865, 101, 803>>,
    <<7866, 69, 777>>, <<7867, 101, 777>>, <<7868, 69, 771>>, <<7869, 101, 771>>, <<7870, 202, 769>>, <<7871, 234, 769>>, <<7872, 202, 768>>,
    <<7873, 234, 768>>, <<7874, 202, 777>>, <<7875, 234, 777>>, <<7876, 202, 771>>, <<7877, 234, 771>>, <<7878, 7864, 770>>, <<7879, 7865, 770>>,
    <<7880, 73, 777>>, <<7881, 105, 777>>, <<7882, 73, 803>>, <<7883, 105, 803>>, <<7884, 79, 803>>, <<7885, 111, 803>>, <<7886, 79, 777>>,
    <<7887, 111, 777>>, <<7888, 212, 769>>, <<7889, 244, 769>>, <<7890, 212, 768>>, <<7891, 244, 768>>, <<7892, 212, 777>>, <<7893, 244, 777>>,
    <<7894, 212, 771>>, <<7895, 244, 771>>, <<7896, 7884, 770>>, <<7897, 7885, 770>>, <<7898, 416, 769>>, <<7899, 417, 769>>, <<7900, 416, 768>>,
    <<7901, 417, 768>>, <<7902, 416, 777>>, <<7903, 417, 777>>, <<7904, 416, 771>>, <<7905, 417, 771>>, <<7906, 416, 803>>, <<7907, 417, 803>>,
    <<7908, 85, 803>>, <<7909, 117, 803>>, <<7910, 85, 777>>, <<7911, 117, 777>>, <<7912, 431, 769>>, <<7913, 432, 769>>, <<7914, 431, 768>>,
    <<7915, 432, 768>>, <<7916, 431, 777>>, <<7917, 432, 777>>, <<7918, 431, 771>>, <<7919, 432, 771>>, <<7920, 431, 803>>, <<7921, 432, 803>>,
    <<7922, 89, 768>>, <<7923, 121, 768>>, <<7924, 89, 803>>, <<7925, 121, 803>>, <<7926, 89, 777>>, <<7927, 121, 777>>, <<7928, 89, 771>>,
    <<7929, 121, 771>>, <<7936, 945, 787>>, <<7937, 945, 788>>, <<7938, 7936, 768>>, <<7939, 7937, 768>>, <<7940, 7936, 769>>, <<7941, 7937, 769>>,
    <<7942, 7936, 834>>, <<7943, 7937, 834>>, <<7944, 913, 787>>, <<7945, 913, 788>>, <<7946, 7944, 768>>, <<7947, 7945, 768>>, <<7948, 7944, 769>>,
    <<7949, 7945, 769>>, <<7950, 7944, 834>>, <<7951, 7945, 834>>, <<7952, 949, 787>>, <<7953, 949, 788>>, <<7954, 7952, 768>>, <<7955, 7953, 768>>,
    <<7956, 7952, 769>>, <<7957, 7953, 769>>, <<7960, 917, 787>>, <<7961, 917, 788>>, <<7962, 7960, 768>>, <<7963, 7961, 768>>, <<7964, 7960, 769>>,
    <<7965, 7961, 769>>, <<7968, 951, 787>>, <<7969, 951, 788>>, <<7970, 7968, 768>>, <<7971, 7969, 768>>, <<7972, 7968, 769>>, <<7973, 7969, 769>>,
    <<7974, 7968, 834>>, <<7975, 7969, 834>>, <<7976, 919, 787>>, <<7977, 919, 788>>, <<7978, 7976, 768>>, <<7979, 7977, 768>>, <<7980, 7976, 769>>,
    <<7981, 7977, 769>>, <<7982, 7976, 834>>, <<7983, 7977, 834>>, <<7984, 953, 787>>, <<7985, 953, 788>>, <<7986, 7984, 768>>, <<7987, 7985, 768>>,
    <<7988, 7984, 769>>, <<7989, 7985, 769>>, <<7990, 7984, 834>>, <<7991, 7985, 834>>, <<7992, 921, 787>>, <<7993, 921, 788>>, <<7994, 7992, 768>>,
    <<7995, 7993, 768>>, <<7996, 7992, 769>>, <<7997, 7993, 769>>, <<7998, 7992, 834>>, <<7999, 7993, 834>>, <<8000, 959, 787>>, <<8001, 959, 788>>,
    <<8002, 8000, 768>>, <<8003, 8001, 768>>, <<8004, 8000, 769>>, <<8005, 8001, 769>>, <<8008, 927, 787>>, <<8009, 927, 788>>, <<8010, 8008, 768>>,
    <<8011, 8009, 768>>, <<8012, 8008, 769>>, <<8013, 8009, 769>>, <<8016, 965, 787>>, <<8017, 965, 788>>, <<8018, 8016, 768>>, <<8019, 8017, 768>>,
    <<8020, 8016, 769>>, <<8021, 8017, 769>>, <<8022, 8016, 834>>, <<8023, 8017, 834>>, <<8025, 933, 788>>, <<8027, 8025, 768>>, <<8029, 8025, 769>>,
    <<8031, 8025, 834>>, <<8032, 969, 787>>, <<8033, 969, 788>>, <<8034, 8032, 768>>, <<8035, 8033, 768>>, <<8036, 8032, 769>>, <<8037, 8033, 769>>,
    <<8038, 8032, 834>>, <<8039, 8033, 834>>, <<8040, 937, 787>>, <<8041, 937, 788>>, <<8042, 8040, 768>>, <<8043, 8041, 768>>, <<8044, 8040, 769>>,
    <<8045, 8041, 769>>, <<8046, 8040, 834>>, <<8047, 8041, 834>>, <<8048, 945, 768>>, <<8049, 940, 0>>, <<8050, 949, 768>>, <<8051, 941, 0>>,
    <<8052, 951, 768>>, <<8053, 942, 0>>, <<8054, 953, 768>>, <<8055, 943, 0>>, <<8056, 959, 768>>, <<8057, 972, 0>>, <<8058, 965, 768>>,
    <<8059, 973, 0>>, <<8060, 969, 768>>, <<8061, 974, 0>>, <<8064, 7936, 837>>, <<8065, 7937, 837>>, <<8066, 7938, 837>>, <<8067, 7939, 837>>,
    <<8068, 7940, 837>>, <<8069, 7941, 837>>, <<8070, 7942, 837>>, <<8071, 7943, 837>>, <<8072, 7944, 837>>, <<8073, 7945, 837>>,
    <<8074, 7946, 837>>, <<8075, 7947, 837>>, <<8076, 7948, 837>>, <<8077, 7949, 837>>, <<8078, 7950, 837>>, <<8079, 7951, 837>>,
    <<8080, 7968, 837>>, <<8081, 7969, 837>>, <<8082, 7970, 837>>, <<8083, 7971, 837>>, <<8084, 7972, 837>>, <<8085, 7973, 837>>,
    <<8086, 7974, 837>>, <<8087, 7975, 837>>, <<8088, 7976, 837>>, <<8089, 7977, 837>>, <<8090, 7978, 837>>, <<8091, 7979, 837>>,
    <<8092, 7980, 837>>, <<8093, 7981, 837>>, <<8094, 7982, 837>>, <<8095, 7983, 837>>, <<8096, 8032, 837>>, <<8097, 8033, 837>>,
    <<8098, 8034, 837>>, <<8099, 8035, 837>>, <<8100, 8036, 837>>, <<8101, 8037, 837>>, <<8102, 8038, 837>>, <<8103, 8039, 837>>,
    <<8104, 8040, 837>>, <<8105, 8041, 837>>, <<8106, 8042, 837>>, <<8107, 8043, 837>>, <<8108, 8044, 837>>, <<8109, 8045, 837>>,
    <<8110, 8046, 837>>, <<8111, 8047, 837>>, <<8112, 945, 774>>, <<8113, 945, 772>>, <<8114, 8048, 837>>, <<8115, 945, 837>>, <<8116, 940, 837>>,
    <<8118, 945, 834>>, <<8119, 8118, 837>>, <<8120, 913, 774>>, <<8121, 913, 772>>, <<8122, 913, 768>>, <<8123, 902, 0>>, <<8124, 913, 837>>,
    <<8126, 953, 0>>, <<8129, 168, 834>>, <<8130, 8052, 837>>, <<8131, 951, 837>>, <<8132, 942, 837>>, <<8134, 951, 834>>, <<8135, 8134, 837>>,
    <<8136, 917, 768>>, <<8137, 904, 0>>, <<8138, 919, 768>>, <<8139, 905, 0>>, <<8140, 919, 837>>, <<8141, 8127, 768>>, <<8142, 8127, 769>>,
    <<8143, 8127, 834>>, <<8144, 953, 774>>, <<8145, 953, 772>>, <<8146, 970, 768>>, <<8147, 912, 0>>, <<8150, 953, 834>>, <<8151, 970, 834>>,
    <<8152, 921, 774>>, <<8153, 921, 772>>, <<8154, 921, 768>>, <<8155, 906, 0>>, <<8157, 8190, 768>>, <<8158, 8190, 769>>, <<8159, 8190, 834>>,
    <<8160, 965, 774>>, <<8161, 965, 772>>, <<8162, 971, 768>>, <<8163, 944, 0>>, <<8164, 961, 787>>, <<8165, 961, 788>>, <<8166, 965, 834>>,
    <<8167, 971, 834>>, <<8168, 933, 774>>, <<8169, 933, 772>>, <<8170, 933, 768>>, <<8171, 910, 0>>, <<8172, 929, 788>>, <<8173, 168, 768>>,
    <<8174, 901, 0>>, <<8175, 96, 0>>, <<8178, 8060, 837>>, <<8179, 969, 837>>, <<8180, 974, 837>>, <<8182, 969, 834>>, <<8183, 8182, 837>>,
    <<8184, 927, 768>>, <<8185, 908, 0>>, <<8186, 937, 768>>, <<8187, 911, 0>>, <<8188, 937, 837>>, <<8189, 180, 0>>, <<8192, 8194, 0>>,
    <<8193, 8195, 0>>, <<8486, 937, 0>>, <<8490, 75, 0>>, <<8491, 197, 0>>, <<8602, 8592, 824>>, <<8603, 8594, 824>>, <<8622, 8596, 824>>,
    <<8653, 8656, 824>>, <<8654, 8660, 824>>, <<8655, 8658, 824>>, <<8708, 8707, 824>>, <<8713, 8712, 824>>, <<8716, 8715, 824>>,
    <<8740, 8739, 824>>, <<8742, 8741, 824>>, <<8769, 8764, 824>>, <<8772, 8771, 824>>, <<8775, 8773, 824>>, <<8777, 8776, 824>>, <<8800, 61, 824>>,
    <<8802, 8801, 824>>, <<8813, 8781, 824>>, <<8814, 60, 824>>, <<8815, 62, 824>>, <<8816, 8804, 824>>, <<8817, 8805, 824>>, <<8820, 8818, 824>>,
    <<8821, 8819, 824>>, <<8824, 8822, 824>>, <<8825, 8823, 824>>, <<8832, 8826, 824>>, <<8833, 8827, 824>>, <<8836, 8834, 824>>,
    <<8837, 8835, 824>>, <<8840, 8838, 824>>, <<8841, 8839, 824>>, <<8876, 8866, 824>>, <<8877, 8872, 824>>, <<8878, 8873, 824>>,
    <<8879, 8875, 824>>, <<8928, 8828, 824>>, <<8929, 8829, 824>>, <<8930, 8849, 824>>, <<8931, 8850, 824>>, <<8938, 8882, 824>>,
    <<8939, 8883, 824>>, <<8940, 8884, 824>>, <<8941, 8885, 824>>, <<9001, 12296, 0>>, <<9002, 12297, 0>>, <<10972, 10973, 824>>,
    <<12364, 12363, 12441>>, <<12366, 12365, 12441>>, <<12368, 12367, 12441>>, <<12370, 12369, 12441>>, <<12372, 12371, 12441>>,
    <<12374, 12373, 12441>>, <<12376, 12375, 12441>>, <<12378, 12377, 12441>>, <<12380, 12379, 12441>>, <<12382, 12381, 12441>>,
    <<12384, 12383, 12441>>, <<12386, 12385, 12441>>, <<12389, 12388, 12441>>, <<12391, 12390, 12441>>, <<12393, 12392, 12441>>,
    <<12400, 12399, 12441>>, <<12401, 12399, 12442>>, <<12403, 12402, 12441>>, <<12404, 12402, 12442>>, <<12406, 12405, 12441>>,
    <<12407, 12405, 12442>>, <<12409, 12408, 12441>>, <<12410, 12408, 12442>>, <<12412, 12411, 12441>>, <<12413, 12411, 12442>>,
    <<12436, 12358, 12441>>, <<12446, 12445, 12441>>, <<12460, 12459, 12441>>, <<12462, 12461, 12441>>, <<12464, 12463, 12441>>,
    <<12466, 12465, 12441>>, <<12468, 12467, 12441>>, <<12470, 12469, 12441>>, <<12472, 12471, 12441>>, <<12474, 12473, 12441>>,
    <<12476, 12475, 12441>>, <<12478, 12477, 12441>>, <<12480, 12479, 12441>>, <<12482, 12481, 12441>>, <<12485, 12484, 12441>>,
    <<12487, 12486, 12441>>, <<12489, 12488, 12441>>, <<12496, 12495, 12441>>, <<12497, 12495, 12442>>, <<12499, 12498, 12441>>,
    <<12500, 12498, 12442>>, <<12502, 12501, 12441>>, <<12503, 12501, 12442>>, <<12505, 12504, 12441>>, <<12506, 12504, 12442>>,
    <<12508, 12507, 12441>>, <<12509, 12507, 12442>>, <<12532, 12454, 12441>>, <<12535, 12527, 12441>>, <<12536, 12528, 12441>>,
    <<12537, 12529, 12441>>, <<12538, 12530, 12441>>, <<12542, 12541, 12441>>, <<63744, 35912, 0>>, <<63745, 26356, 0>>, <<63746, 36554, 0>>,
    <<63747, 36040, 0>>, <<63748, 28369, 0>>, <<63749, 20018, 0>>, <<63750, 21477, 0>>, <<63751, 40860, 0>>, <<63752, 40860, 0>>,
    <<63753, 22865, 0>>, <<63754, 37329, 0>>, <<63755, 21895, 0>>, <<63756, 22856, 0>>, <<63757, 25078, 0>>, <<63758, 30313, 0>>,
    <<63759, 32645, 0>>, <<63760, 34367, 0>>, <<63761, 34746, 0>>, <<63762, 35064, 0>>, <<63763, 37007, 0>>, <<63764, 27138, 0>>,
    <<63765, 27931, 0>>, <<63766, 28889, 0>>, <<63767, 29662, 0>>, <<63768, 33853, 0>>, <<63769, 37226, 0>>, <<63770, 39409, 0>>,
    <<63771, 20098, 0>>, <<63772, 21365, 0>>, <<63773, 27396, 0>>, <<63774, 29211, 0>>, <<63775, 34349, 0>>, <<63776, 40478, 0>>,
    <<63777, 23888, 0>>, <<63778, 28651, 0>>, <<63779, 34253, 0>>, <<63780, 35172, 0>>, <<63781, 25289, 0>>, <<63782, 33240, 0>>,
    <<63783, 34847, 0>>, <<63784, 24266, 0>>, <<63785, 26391, 0>>, <<63786, 28010, 0>>, <<63787, 29436, 0>>, <<63788, 37070, 0>>,
    <<63789, 20358, 0>>, <<63790, 20919, 0>>, <<63791, 21214, 0>>, <<63792, 25796, 0>>, <<63793, 27347, 0>>, <<63794, 29200, 0>>,
    <<63795, 30439, 0>>, <<63796, 32769, 0>>, <<63797, 34310, 0>>, <<63798, 34396, 0>>, <<63799, 36335, 0>>, <<63800, 38706, 0>>,
    <<63801, 39791, 0>>, <<63802, 40442, 0>>, <<63803, 30860, 0>>, <<63804, 31103, 0>>, <<63805, 32160, 0>>, <<63806, 33737, 0>>,
    <<63807, 37636, 0>>, <<63808, 40575, 0>>, <<63809, 35542, 0>>, <<63810, 22751, 0>>, <<63811, 24324, 0>>, <<63812, 31840, 0>>,
    <<63813, 32894, 0>>, <<63814, 29282, 0>>, <<63815, 30922, 0>>, <<63816, 36034, 0>>, <<63817, 38647, 0>>, <<63818, 22744, 0>>,
    <<63819, 23650, 0>>, <<63820, 27155, 0>>, <<63821, 28122, 0>>, <<63822, 28431, 0>>, <<63823, 32047, 0>>, <<63824, 32311, 0>>,
    <<63825, 38475, 0>>, <<63826, 21202, 0>>, <<63827, 32907, 0>>, <<63828, 20956, 0>>, <<63829, 20940, 0>>, <<63830, 31260, 0>>,
    <<63831, 32190, 0>>, <<63832, 33777, 0>>, <<63833, 38517, 0>>, <<63834, 35712, 0>>, <<63835, 25295, 0>>, <<63836, 27138, 0>>,
    <<63837, 35582, 0>>, <<63838, 20025, 0>>, <<63839, 23527, 0>>, <<63840, 24594, 0>>, <<63841, 29575, 0>>, <<63842, 30064, 0>>,
    <<63843, 21271, 0>>, <<63844, 30971, 0>>, <<63845, 20415, 0>>, <<63846, 24489, 0>>, <<63847, 19981, 0>>, <<63848, 27852, 0>>,
    <<63849, 25976, 0>>, <<63850, 32034, 0>>, <<63851, 21443, 0>>, <<63852, 22622, 0>>, <<63853, 30465, 0>>, <<63854, 33865, 0>>,
    <<63855, 35498, 0>>, <<63856, 27578, 0>>, <<63857, 36784, 0>>, <<63858, 27784, 0>>, <<63859, 25342, 0>>, <<63860, 33509, 0>>,
    <<63861, 25504, 0>>, <<63862, 30053, 0>>, <<63863, 20142, 0>>, <<63864, 20841, 0>>, <<63865, 20937, 0>>, <<63866, 26753, 0>>,
    <<63867, 31975, 0>>, <<63868, 33391, 0>>, <<63869, 35538, 0>>, <<63870, 37327, 0>>, <<63871, 21237, 0>>, <<63872, 21570, 0>>,
    <<63873, 22899, 0>>, <<63874, 24300, 0>>, <<63875, 26053, 0>>, <<63876, 28670, 0>>, <<63877, 31018, 0>>, <<63878, 38317, 0>>,
    <<63879, 39530, 0>>, <<63880, 40599, 0>>, <<63881, 40654, 0>>, <<63882, 21147, 0>>, <<63883, 26310, 0>>, <<63884, 27511, 0>>,
    <<63885, 36706, 0>>, <<63886, 24180, 0>>, <<63887, 24976, 0>>, <<63888, 25088, 0>>, <<63889, 25754, 0>>, <<63890, 28451, 0>>,
    <<63891, 29001, 0>>, <<63892, 29833, 0>>, <<63893, 31178, 0>>, <<63894, 32244, 0>>, <<63895, 32879, 0>>, <<63896, 36646, 0>>,
    <<63897, 34030, 0>>, <<63898, 36899, 0>>, <<63899, 37706, 0>>, <<63900, 21015, 0>>, <<63901, 21155, 0>>, <<63902, 21693, 0>>,
    <<63903, 28872, 0>>, <<63904, 35010, 0>>, <<63905, 35498, 0>>, <<63906, 24265, 0>>, <<63907, 24565, 0>>, <<63908, 25467, 0>>,
    <<63909, 27566, 0>>, <<63910, 31806, 0>>, <<63911, 29557, 0>>, <<63912, 20196, 0>>, <<63913, 22265, 0>>, <<63914, 23527, 0>>,
    <<63915, 23994, 0>>, <<63916, 24604, 0>>, <<63917, 29618, 0>>, <<63918, 29801, 0>>, <<63919, 32666, 0>>, <<63920, 32838, 0>>,
    <<63921, 37428, 0>>, <<63922, 38646, 0>>, <<63923, 38728, 0>>, <<63924, 38936, 0>>, <<63925, 20363, 0>>, <<63926, 31150, 0>>,
    <<63927, 37300, 0>>, <<63928, 38584, 0>>, <<63929, 24801, 0>>, <<63930, 20102, 0>>, <<63931, 20698, 0>>, <<63932, 23534, 0>>,
    <<63933, 23615, 0>>, <<63934, 26009, 0>>, <<63935, 27138, 0>>, <<63936, 29134, 0>>, <<63937, 30274, 0>>, <<63938, 34044, 0>>,
    <<63939, 36988, 0>>, <<63940, 40845, 0>>, <<63941, 26248, 0>>, <<63942, 38446, 0>>, <<63943, 21129, 0>>, <<63944, 26491, 0>>,
    <<63945, 26611, 0>>, <<63946, 27969, 0>>, <<63947, 28316, 0>>, <<63948, 29705, 0>>, <<63949, 30041, 0>>, <<63950, 30827, 0>>,
    <<63951, 32016, 0>>, <<63952, 39006, 0>>, <<63953, 20845, 0>>, <<63954, 25134, 0>>, <<63955, 38520, 0>>, <<63956, 20523, 0>>,
    <<63957, 23833, 0>>, <<63958, 28138, 0>>, <<63959, 36650, 0>>, <<63960, 24459, 0>>, <<63961, 24900, 0>>, <<63962, 26647, 0>>,
    <<63963, 29575, 0>>, <<63964, 38534, 0>>, <<63965, 21033, 0>>, <<63966, 21519, 0>>, <<63967, 23653, 0>>, <<63968, 26131, 0>>,
    <<63969, 26446, 0>>, <<63970, 26792, 0>>, <<63971, 27877, 0>>, <<63972, 29702, 0>>, <<63973, 30178, 0>>, <<63974, 32633, 0>>,
    <<63975, 35023, 0>>, <<63976, 35041, 0>>, <<63977, 37324, 0>>, <<63978, 38626, 0>>, <<63979, 21311, 0>>, <<63980, 28346, 0>>,
    <<63981, 21533, 0>>, <<63982, 29136, 0>>, <<63983, 29848, 0>>, <<63984, 34298, 0>>, <<63985, 38563, 0>>, <<63986, 40023, 0>>,
    <<63987, 40607, 0>>, <<63988, 26519, 0>>, <<63989, 28107, 0>>, <<63990, 33256, 0>>, <<63991, 31435, 0>>, <<63992, 31520, 0>>,
    <<63993, 31890, 0>>, <<63994, 29376, 0>>, <<63995, 28825, 0>>, <<63996, 35672, 0>>, <<63997, 20160, 0>>, <<63998, 33590, 0>>,
    <<63999, 21050, 0>>, <<64000, 20999, 0>>, <<64001, 24230, 0>>, <<64002, 25299, 0>>, <<64003, 31958, 0>>, <<64004, 23429, 0>>,
    <<64005, 27934, 0>>, <<64006, 26292, 0>>, <<64007, 36667, 0>>, <<64008, 34892, 0>>, <<64009, 38477, 0>>, <<64010, 35211, 0>>,
    <<64011, 24275, 0>>, <<64012, 20800, 0>>, <<64013, 21952, 0>>, <<64016, 22618, 0>>, <<64018, 26228, 0>>, <<64021, 20958, 0>>,
    <<64022, 29482, 0>>, <<64023, 30410, 0>>, <<64024, 31036, 0>>, <<64025, 31070, 0>>, <<64026, 31077, 0>>, <<64027, 31119, 0>>,
    <<64028, 38742, 0>>, <<64029, 31934, 0>>, <<64030, 32701, 0>>, <<64032, 34322, 0>>, <<64034, 35576, 0>>, <<64037, 36920, 0>>,
    <<64038, 37117, 0>>, <<64042, 39151, 0>>, <<64043, 39164, 0>>, <<64044, 39208, 0>>, <<64045, 40372, 0>>, <<64046, 37086, 0>>,
    <<64047, 38583, 0>>, <<64048, 20398, 0>>, <<64049, 20711, 0>>, <<64050, 20813, 0>>, <<64051, 21193, 0>>, <<64052, 21220, 0>>,
    <<64053, 21329, 0>>, <<64054, 21917, 0>>, <<64055, 22022, 0>>, <<64056, 22120, 0>>, <<64057, 22592, 0>>, <<64058, 22696, 0>>,
    <<64059, 23652, 0>>, <<64060, 23662, 0>>, <<64061, 24724, 0>>, <<64062, 24936, 0>>, <<64063, 24974, 0>>, <<64064, 25074, 0>>,
    <<64065, 25935, 0>>, <<64066, 26082, 0>>, <<64067, 26257, 0>>, <<64068, 26757, 0>>, <<64069, 28023, 0>>, <<64070, 28186, 0>>,
    <<64071, 28450, 0>>, <<64072, 29038, 0>>, <<64073, 29227, 0>>, <<64074, 29730, 0>>, <<64075, 30865, 0>>, <<64076, 31038, 0>>,
    <<64077, 31049, 0>>, <<64078, 31048, 0>>, <<64079, 31056, 0>>, <<64080, 31062, 0>>, <<64081, 31069, 0>>, <<64082, 31117, 0>>,
    <<64083, 31118, 0>>, <<64084, 31296, 0>>, <<64085, 31361, 0>>, <<64086, 31680, 0>>, <<64087, 32244, 0>>, <<64088, 32265, 0>>,
    <<64089, 32321, 0>>, <<64090, 32626, 0>>, <<64091, 32773, 0>>, <<64092, 33261, 0>>, <<64093, 33401, 0>>, <<64094, 33401, 0>>,
    <<64095, 33879, 0>>, <<64096, 35088, 0>>, <<64097, 35222, 0>>, <<64098, 35585, 0>>, <<64099, 35641, 0>>, <<64100, 36051, 0>>,
    <<64101, 36104, 0>>, <<64102, 36790, 0>>, <<64103, 36920, 0>>, <<64104, 38627, 0>>, <<64105, 38911, 0>>, <<64106, 38971, 0>>,
    <<64107, 24693, 0>>, <<64108, 148206, 0>>, <<64109, 33304, 0>>, <<64112, 20006, 0>>, <<64113, 20917, 0>>, <<64114, 20840, 0>>,
    <<64115, 20352, 0>>, <<64116, 20805, 0>>, <<64117, 20864, 0>>, <<64118, 21191, 0>>, <<64119, 21242, 0>>, <<64120, 21917, 0>>,
    <<64121, 21845, 0>>, <<64122, 21913, 0>>, <<64123, 21986, 0>>, <<64124, 22618, 0>>, <<64125, 22707, 0>>, <<64126, 22852, 0>>,
    <<64127, 22868, 0>>, <<64128, 23138, 0>>, <<64129, 23336, 0>>, <<64130, 24274, 0>>, <<64131, 24281, 0>>, <<64132, 24425, 0>>,
    <<64133, 24493, 0>>, <<64134, 24792, 0>>, <<64135, 24910, 0>>, <<64136, 24840, 0>>, <<64137, 24974, 0>>, <<64138, 24928, 0>>,
    <<64139, 25074, 0>>, <<64140, 25140, 0>>, <<64141, 25540, 0>>, <<64142, 25628, 0>>, <<64143, 25682, 0>>, <<64144, 25942, 0>>,
    <<64145, 26228, 0>>, <<64146, 26391, 0>>, <<64147, 26395, 0>>, <<64148, 26454, 0>>, <<64149, 27513, 0>>, <<64150, 27578, 0>>,
    <<64151, 27969, 0>>, <<64152, 28379, 0>>, <<64153, 28363, 0>>, <<64154, 28450, 0>>, <<64155, 28702, 0>>, <<64156, 29038, 0>>,
    <<64157, 30631, 0>>, <<64158, 29237, 0>>, <<64159, 29359, 0>>, <<64160, 29482, 0>>, <<64161, 29809, 0>>, <<64162, 29958, 0>>,
    <<64163, 30011, 0>>, <<64164, 30237, 0>>, <<64165, 30239, 0>>, <<64166, 30410, 0>>, <<64167, 30427, 0>>, <<64168, 30452, 0>>,
    <<64169, 30538, 0>>, <<64170, 30528, 0>>, <<64171, 30924, 0>>, <<64172, 31409, 0>>, <<64173, 31680, 0>>, <<64174, 31867, 0>>,
    <<64175, 32091, 0>>, <<64176, 32244, 0>>, <<64177, 32574, 0>>, <<64178, 32773, 0>>, <<64179, 33618, 0>>, <<64180, 33775, 0>>,
    <<64181, 34681, 0>>, <<64182, 35137, 0>>, <<64183, 35206, 0>>, <<64184, 35222, 0>>, <<64185, 35519, 0>>, <<64186, 35576, 0>>,
    <<64187, 35531, 0>>, <<64188, 35585, 0>>, <<64189, 35582, 0>>, <<64190, 35565, 0>>, <<64191, 35641, 0>>, <<64192, 35722, 0>>,
    <<64193, 36104, 0>>, <<64194, 36664, 0>>, <<64195, 36978, 0>>, <<64196, 37273, 0>>, <<64197, 37494, 0>>, <<64198, 38524, 0>>,
    <<64199, 38627, 0>>, <<64200, 38742, 0>>, <<64201, 38875, 0>>, <<64202, 38911, 0>>, <<64203, 38923, 0>>, <<64204, 38971, 0>>,
    <<64205, 39698, 0>>, <<64206, 40860, 0>>, <<64207, 141386, 0>>, <<64208, 141380, 0>>, <<64209, 144341, 0>>, <<64210, 15261, 0>>,
    <<64211, 16408, 0>>, <<64212, 16441, 0>>, <<64213, 152137, 0>>, <<64214, 154832, 0>>, <<64215, 163539, 0>>, <<64216, 40771, 0>>,
    <<64217, 40846, 0>>, <<64285, 1497, 1460>>, <<64287, 1522, 1463>>, <<64298, 1513, 1473>>, <<64299, 1513, 1474>>, <<64300, 64329, 1473>>,
    <<64301, 64329, 1474>>, <<64302, 1488, 1463>>, <<64303, 1488, 1464>>, <<64304, 1488, 1468>>, <<64305, 1489, 1468>>, <<64306, 1490, 1468>>,
    <<64307, 1491, 1468>>, <<64308, 1492, 1468>>, <<64309, 1493, 1468>>, <<64310, 1494, 1468>>, <<64312, 1496, 1468>>, <<64313, 1497, 1468>>,
    <<64314, 1498, 1468>>, <<64315, 1499, 1468>>, <<64316, 1500, 1468>>, <<64318, 1502, 1468>>, <<64320, 1504, 1468>>, <<64321, 1505, 1468>>,
    <<64323, 1507, 1468>>, <<64324, 1508, 1468>>, <<64326, 1510, 1468>>, <<64327, 1511, 1468>>, <<64328, 1512, 1468>>, <<64329, 1513, 1468>>,
    <<64330, 1514, 1468>>, <<64331, 1493, 1465>>, <<64332, 1489, 1471>>, <<64333, 1499, 1471>>, <<64334, 1508, 1471>>, <<69786, 69785, 69818>>,
    <<69788, 69787, 69818>>, <<69803, 69797, 69818>>, <<69934, 69937, 69927>>, <<69935, 69938, 69927>>, <<70475, 70471, 70462>>,
    <<70476, 70471, 70487>>, <<70843, 70841, 70842>>, <<70844, 70841, 70832>>, <<70846, 70841, 70845>>, <<71098, 71096, 71087>>,
    <<71099, 71097, 71087>>, <<71992, 71989, 71984>>, <<119134, 119127, 119141>>, <<119135, 119128, 119141>>, <<119136, 119135, 119150>>,
    <<119137, 119135, 119151>>, <<119138, 119135, 119152>>, <<119139, 119135, 119153>>, <<119140, 119135, 119154>>, <<119227, 119225, 119141>>,
    <<119228, 119226, 119141>>, <<119229, 119227, 119150>>, <<119230, 119228, 119150>>, <<119231, 119227, 119151>>, <<119232, 119228, 119151>>,
    <<194560, 20029, 0>>, <<194561, 20024, 0>>, <<194562, 20033, 0>>, <<194563, 131362, 0>>, <<194564, 20320, 0>>, <<194565, 20398, 0>>,
    <<194566, 20411, 0>>, <<194567, 20482, 0>>, <<194568, 20602, 0>>, <<194569, 20633, 0>>, <<194570, 20711, 0>>, <<194571, 20687, 0>>,
    <<194572, 13470, 0>>, <<194573, 132666, 0>>, <<194574, 20813, 0>>, <<194575, 20820, 0>>, <<194576, 20836, 0>>, <<194577, 20855, 0>>,
    <<194578, 132380, 0>>, <<194579, 13497, 0>>, <<194580, 20839, 0>>, <<194581, 20877, 0>>, <<194582, 132427, 0>>, <<194583, 20887, 0>>,
    <<194584, 20900, 0>>, <<194585, 20172, 0>>, <<194586, 20908, 0>>, <<194587, 20917, 0>>, <<194588, 168415, 0>>, <<194589, 20981, 0>>,
    <<194590, 20995, 0>>, <<194591, 13535, 0>>, <<194592, 21051, 0>>, <<194593, 21062, 0>>, <<194594, 21106, 0>>, <<194595, 21111, 0>>,
    <<194596, 13589, 0>>, <<194597, 21191, 0>>, <<194598, 21193, 0>>, <<194599, 21220, 0>>, <<194600, 21242, 0>>, <<194601, 21253, 0>>,
    <<194602, 21254, 0>>, <<194603, 21271, 0>>, <<194604, 21321, 0>>, <<194605, 21329, 0>>, <<194606, 21338, 0>>, <<194607, 21363, 0>>,
    <<194608, 21373, 0>>, <<194609, 21375, 0>>, <<194610, 21375, 0>>, <<194611, 21375, 0>>, <<194612, 133676, 0>>, <<194613, 28784, 0>>,
    <<194614, 21450, 0>>, <<194615, 21471, 0>>, <<194616, 133987, 0>>, <<194617, 21483, 0>>, <<194618, 21489, 0>>, <<194619, 21510, 0>>,
    <<194620, 21662, 0>>, <<194621, 21560, 0>>, <<194622, 21576, 0>>, <<194623, 21608, 0>>, <<194624, 21666, 0>>, <<194625, 21750, 0>>,
    <<194626, 21776, 0>>, <<194627, 21843, 0>>, <<194628, 21859, 0>>, <<194629, 21892, 0>>, <<194630, 21892, 0>>, <<194631, 21913, 0>>,
    <<194632, 21931, 0>>, <<194633, 21939, 0>>, <<194634, 21954, 0>>, <<194635, 22294, 0>>, <<194636, 22022, 0>>, <<194637, 22295, 0>>,
    <<194638, 22097, 0>>, <<194639, 22132, 0>>, <<194640, 20999, 0>>, <<194641, 22766, 0>>, <<194642, 22478, 0>>, <<194643, 22516, 0>>,
    <<194644, 22541, 0>>, <<194645, 22411, 0>>, <<194646, 22578, 0>>, <<194647, 22577, 0>>, <<194648, 22700, 0>>, <<194649, 136420, 0>>,
    <<194650, 22770, 0>>, <<194651, 22775, 0>>, <<194652, 22790, 0>>, <<194653, 22810, 0>>, <<194654, 22818, 0>>, <<194655, 22882, 0>>,
    <<194656, 136872, 0>>, <<194657, 136938, 0>>, <<194658, 23020, 0>>, <<194659, 23067, 0>>, <<194660, 23079, 0>>, <<194661, 23000, 0>>,
    <<194662, 23142, 0>>, <<194663, 14062, 0>>, <<194664, 14076, 0>>, <<194665, 23304, 0>>, <<194666, 23358, 0>>, <<194667, 23358, 0>>,
    <<194668, 137672, 0>>, <<194669, 23491, 0>>, <<194670, 23512, 0>>, <<194671, 23527, 0>>, <<194672, 23539, 0>>, <<194673, 138008, 0>>,
    <<194674, 23551, 0>>, <<194675, 23558, 0>>, <<194676, 24403, 0>>, <<194677, 23586, 0>>, <<194678, 14209, 0>>, <<194679, 23648, 0>>,
    <<194680, 23662, 0>>, <<194681, 23744, 0>>, <<194682, 23693, 0>>, <<194683, 138724, 0>>, <<194684, 23875, 0>>, <<194685, 138726, 0>>,
    <<194686, 23918, 0>>, <<194687, 23915, 0>>, <<194688, 23932, 0>>, <<194689, 24033, 0>>, <<194690, 24034, 0>>, <<194691, 14383, 0>>,
    <<194692, 24061, 0>>, <<194693, 24104, 0>>, <<194694, 24125, 0>>, <<194695, 24169, 0>>, <<194696, 14434, 0>>, <<194697, 139651, 0>>,
    <<194698, 14460, 0>>, <<194699, 24240, 0>>, <<194700, 24243, 0>>, <<194701, 24246, 0>>, <<194702, 24266, 0>>, <<194703, 172946, 0>>,
    <<194704, 24318, 0>>, <<194705, 140081, 0>>, <<194706, 140081, 0>>, <<194707, 33281, 0>>, <<194708, 24354, 0>>, <<194709, 24354, 0>>,
    <<194710, 14535, 0>>, <<194711, 144056, 0>>, <<194712, 156122, 0>>, <<194713, 24418, 0>>, <<194714, 24427, 0>>, <<194715, 14563, 0>>,
    <<194716, 24474, 0>>, <<194717, 24525, 0>>, <<194718, 24535, 0>>, <<194719, 24569, 0>>, <<194720, 24705, 0>>, <<194721, 14650, 0>>,
    <<194722, 14620, 0>>, <<194723, 24724, 0>>, <<194724, 141012, 0>>, <<194725, 24775, 0>>, <<194726, 24904, 0>>, <<194727, 24908, 0>>,
    <<194728, 24910, 0>>, <<194729, 24908, 0>>, <<194730, 24954, 0>>, <<194731, 24974, 0>>, <<194732, 25010, 0>>, <<194733, 24996, 0>>,
    <<194734, 25007, 0>>, <<194735, 25054, 0>>, <<194736, 25074, 0>>, <<194737, 25078, 0>>, <<194738, 25104, 0>>, <<194739, 25115, 0>>,
    <<194740, 25181, 0>>, <<194741, 25265, 0>>, <<194742, 25300, 0>>, <<194743, 25424, 0>>, <<194744, 142092, 0>>, <<194745, 25405, 0>>,
    <<194746, 25340, 0>>, <<194747, 25448, 0>>, <<194748, 25475, 0>>, <<194749, 25572, 0>>, <<194750, 142321, 0>>, <<194751, 25634, 0>>,
    <<194752, 25541, 0>>, <<194753, 25513, 0>>, <<194754, 14894, 0>>, <<194755, 25705, 0>>, <<194756, 25726, 0>>, <<194757, 25757, 0>>,
    <<194758, 25719, 0>>, <<194759, 14956, 0>>, <<194760, 25935, 0>>, <<194761, 25964, 0>>, <<194762, 143370, 0>>, <<194763, 26083, 0>>,
    <<194764, 26360, 0>>, <<194765, 26185, 0>>, <<194766, 15129, 0>>, <<194767, 26257, 0>>, <<194768, 15112, 0>>, <<194769, 15076, 0>>,
    <<194770, 20882, 0>>, <<194771, 20885, 0>>, <<194772, 26368, 0>>, <<194773, 26268, 0>>, <<194774, 32941, 0>>, <<194775, 17369, 0>>,
    <<194776, 26391, 0>>, <<194777, 26395, 0>>, <<194778, 26401, 0>>, <<194779, 26462, 0>>, <<194780, 26451, 0>>, <<194781, 144323, 0>>,
    <<194782, 15177, 0>>, <<194783, 26618, 0>>, <<194784, 26501, 0>>, <<194785, 26706, 0>>, <<194786, 26757, 0>>, <<194787, 144493, 0>>,
    <<194788, 26766, 0>>, <<194789, 26655, 0>>, <<194790, 26900, 0>>, <<194791, 15261, 0>>, <<194792, 26946, 0>>, <<194793, 27043, 0>>,
    <<194794, 27114, 0>>, <<194795, 27304, 0>>, <<194796, 145059, 0>>, <<194797, 27355, 0>>, <<194798, 15384, 0>>, <<194799, 27425, 0>>,
    <<194800, 145575, 0>>, <<194801, 27476, 0>>, <<194802, 15438, 0>>, <<194803, 27506, 0>>, <<194804, 27551, 0>>, <<194805, 27578, 0>>,
    <<194806, 27579, 0>>, <<194807, 146061, 0>>, <<194808, 138507, 0>>, <<194809, 146170, 0>>, <<194810, 27726, 0>>, <<194811, 146620, 0>>,
    <<194812, 27839, 0>>, <<194813, 27853, 0>>, <<194814, 27751, 0>>, <<194815, 27926, 0>>, <<194816, 27966, 0>>, <<194817, 28023, 0>>,
    <<194818, 27969, 0>>, <<194819, 28009, 0>>, <<194820, 28024, 0>>, <<194821, 28037, 0>>, <<194822, 146718, 0>>, <<194823, 27956, 0>>,
    <<194824, 28207, 0>>, <<194825, 28270, 0>>, <<194826, 15667, 0>>, <<194827, 28363, 0>>, <<194828, 28359, 0>>, <<194829, 147153, 0>>,
    <<194830, 28153, 0>>, <<194831, 28526, 0>>, <<194832, 147294, 0>>, <<194833, 147342, 0>>, <<194834, 28614, 0>>, <<194835, 28729, 0>>,
    <<194836, 28702, 0>>, <<194837, 28699, 0>>, <<194838, 15766, 0>>, <<194839, 28746, 0>>, <<194840, 28797, 0>>, <<194841, 28791, 0>>,
    <<194842, 28845, 0>>, <<194843, 132389, 0>>, <<194844, 28997, 0>>, <<194845, 148067, 0>>, <<194846, 29084, 0>>, <<194847, 148395, 0>>,
    <<194848, 29224, 0>>, <<194849, 29237, 0>>, <<194850, 29264, 0>>, <<194851, 149000, 0>>, <<194852, 29312, 0>>, <<194853, 29333, 0>>,
    <<194854, 149301, 0>>, <<194855, 149524, 0>>, <<194856, 29562, 0>>, <<194857, 29579, 0>>, <<194858, 16044, 0>>, <<194859, 29605, 0>>,
    <<194860, 16056, 0>>, <<194861, 16056, 0>>, <<194862, 29767, 0>>, <<194863, 29788, 0>>, <<194864, 29809, 0>>, <<194865, 29829, 0>>,
    <<194866, 29898, 0>>, <<194867, 16155, 0>>, <<194868, 29988, 0>>, <<194869, 150582, 0>>, <<194870, 30014, 0>>, <<194871, 150674, 0>>,
    <<194872, 30064, 0>>, <<194873, 139679, 0>>, <<194874, 30224, 0>>, <<194875, 151457, 0>>, <<194876, 151480, 0>>, <<194877, 151620, 0>>,
    <<194878, 16380, 0>>, <<194879, 16392, 0>>, <<194880, 30452, 0>>, <<194881, 151795, 0>>, <<194882, 151794, 0>>, <<194883, 151833, 0>>,
    <<194884, 151859, 0>>, <<194885, 30494, 0>>, <<194886, 30495, 0>>, <<194887, 30495, 0>>, <<194888, 30538, 0>>, <<194889, 16441, 0>>,
    <<194890, 30603, 0>>, <<194891, 16454, 0>>, <<194892, 16534, 0>>, <<194893, 152605, 0>>, <<194894, 30798, 0>>, <<194895, 30860, 0>>,
    <<194896, 30924, 0>>, <<194897, 16611, 0>>, <<194898, 153126, 0>>, <<194899, 31062, 0>>, <<194900, 153242, 0>>, <<194901, 153285, 0>>,
    <<194902, 31119, 0>>, <<194903, 31211, 0>>, <<194904, 16687, 0>>, <<194905, 31296, 0>>, <<194906, 31306, 0>>, <<194907, 31311, 0>>,
    <<194908, 153980, 0>>, <<194909, 154279, 0>>, <<194910, 154279, 0>>, <<194911, 31470, 0>>, <<194912, 16898, 0>>, <<194913, 154539, 0>>,
    <<194914, 31686, 0>>, <<194915, 31689, 0>>, <<194916, 16935, 0>>, <<194917, 154752, 0>>, <<194918, 31954, 0>>, <<194919, 17056, 0>>,
    <<194920, 31976, 0>>, <<194921, 31971, 0>>, <<194922, 32000, 0>>, <<194923, 155526, 0>>, <<194924, 32099, 0>>, <<194925, 17153, 0>>,
    <<194926, 32199, 0>>, <<194927, 32258, 0>>, <<194928, 32325, 0>>, <<194929, 17204, 0>>, <<194930, 156200, 0>>, <<194931, 156231, 0>>,
    <<194932, 17241, 0>>, <<194933, 156377, 0>>, <<194934, 32634, 0>>, <<194935, 156478, 0>>, <<194936, 32661, 0>>, <<194937, 32762, 0>>,
    <<194938, 32773, 0>>, <<194939, 156890, 0>>, <<194940, 156963, 0>>, <<194941, 32864, 0>>, <<194942, 157096, 0>>, <<194943, 32880, 0>>,
    <<194944, 144223, 0>>, <<194945, 17365, 0>>, <<194946, 32946, 0>>, <<194947, 33027, 0>>, <<194948, 17419, 0>>, <<194949, 33086, 0>>,
    <<194950, 23221, 0>>, <<194951, 157607, 0>>, <<194952, 157621, 0>>, <<194953, 144275, 0>>, <<194954, 144284, 0>>, <<194955, 33281, 0>>,
    <<194956, 33284, 0>>, <<194957, 36766, 0>>, <<194958, 17515, 0>>, <<194959, 33425, 0>>, <<194960, 33419, 0>>, <<194961, 33437, 0>>,
    <<194962, 21171, 0>>, <<194963, 33457, 0>>, <<194964, 33459, 0>>, <<194965, 33469, 0>>, <<194966, 33510, 0>>, <<194967, 158524, 0>>,
    <<194968, 33509, 0>>, <<194969, 33565, 0>>, <<194970, 33635, 0>>, <<194971, 33709, 0>>, <<194972, 33571, 0>>, <<194973, 33725, 0>>,
    <<194974, 33767, 0>>, <<194975, 33879, 0>>, <<194976, 33619, 0>>, <<194977, 33738, 0>>, <<194978, 33740, 0>>, <<194979, 33756, 0>>,
    <<194980, 158774, 0>>, <<194981, 159083, 0>>, <<194982, 158933, 0>>, <<194983, 17707, 0>>, <<194984, 34033, 0>>, <<194985, 34035, 0>>,
    <<194986, 34070, 0>>, <<194987, 160714, 0>>, <<194988, 34148, 0>>, <<194989, 159532, 0>>, <<194990, 17757, 0>>, <<194991, 17761, 0>>,
    <<194992, 159665, 0>>, <<194993, 159954, 0>>, <<194994, 17771, 0>>, <<194995, 34384, 0>>, <<194996, 34396, 0>>, <<194997, 34407, 0>>,
    <<194998, 34409, 0>>, <<194999, 34473, 0>>, <<195000, 34440, 0>>, <<195001, 34574, 0>>, <<195002, 34530, 0>>, <<195003, 34681, 0>>,
    <<195004, 34600, 0>>, <<195005, 34667, 0>>, <<195006, 34694, 0>>, <<195007, 17879, 0>>, <<195008, 34785, 0>>, <<195009, 34817, 0>>,
    <<195010, 17913, 0>>, <<195011, 34912, 0>>, <<195012, 34915, 0>>, <<195013, 161383, 0>>, <<195014, 35031, 0>>, <<195015, 35038, 0>>,
    <<195016, 17973, 0>>, <<195017, 35066, 0>>, <<195018, 13499, 0>>, <<195019, 161966, 0>>, <<195020, 162150, 0>>, <<195021, 18110, 0>>,
    <<195022, 18119, 0>>, <<195023, 35488, 0>>, <<195024, 35565, 0>>, <<195025, 35722, 0>>, <<195026, 35925, 0>>, <<195027, 162984, 0>>,
    <<195028, 36011, 0>>, <<195029, 36033, 0>>, <<195030, 36123, 0>>, <<195031, 36215, 0>>, <<195032, 163631, 0>>, <<195033, 133124, 0>>,
    <<195034, 36299, 0>>, <<195035, 36284, 0>>, <<195036, 36336, 0>>, <<195037, 133342, 0>>, <<195038, 36564, 0>>, <<195039, 36664, 0>>,
    <<195040, 165330, 0>>, <<195041, 165357, 0>>, <<195042, 37012, 0>>, <<195043, 37105, 0>>, <<195044, 37137, 0>>, <<195045, 165678, 0>>,
    <<195046, 37147, 0>>, <<195047, 37432, 0>>, <<195048, 37591, 0>>, <<195049, 37592, 0>>, <<195050, 37500, 0>>, <<195051, 37881, 0>>,
    <<195052, 37909, 0>>, <<195053, 166906, 0>>, <<195054, 38283, 0>>, <<195055, 18837, 0>>, <<195056, 38327, 0>>, <<195057, 167287, 0>>,
    <<195058, 18918, 0>>, <<195059, 38595, 0>>, <<195060, 23986, 0>>, <<195061, 38691, 0>>, <<195062, 168261, 0>>, <<195063, 168474, 0>>,
    <<195064, 19054, 0>>, <<195065, 19062, 0>>, <<195066, 38880, 0>>, <<195067, 168970, 0>>, <<195068, 19122, 0>>, <<195069, 169110, 0>>,
    <<195070, 38923, 0>>, <<195071, 38923, 0>>, <<195072, 38953, 0>>, <<195073, 169398, 0>>, <<195074, 39138, 0>>, <<195075, 19251, 0>>,
    <<195076, 39209, 0>>, <<195077, 39335, 0>>, <<195078, 39362, 0>>, <<195079, 39422, 0>>, <<195080, 19406, 0>>, <<195081, 170800, 0>>,
    <<195082, 39698, 0>>, <<195083, 40000, 0>>, <<195084, 40189, 0>>, <<195085, 19662, 0>>, <<195086, 19693, 0>>, <<195087, 40295, 0>>,
    <<195088, 172238, 0>>, <<195089, 19704, 0>>, <<195090, 172293, 0>>, <<195091, 172558, 0>>, <<195092, 172689, 0>>, <<195093, 40635, 0>>,
    <<195094, 19798, 0>>, <<195095, 40697, 0>>, <<195096, 40702, 0>>, <<195097, 40709, 0>>, <<195098, 40719, 0>>, <<195099, 40726, 0>>,
    <<195100, 40763, 0>>, <<195101, 173568, 0>>
    >>

\* unicodedata.combining: rows <<first, last, class>> sorted on first, the code points of a class
\* that is not 0
CombiningClasses == <<
    <<768, 788, 230>>, <<789, 789, 232>>, <<790, 793, 220>>, <<794, 794, 232>>, <<795, 795, 216>>, <<796, 800, 220>>, <<801, 802, 202>>,
    <<803, 806, 220>>, <<807, 808, 202>>, <<809, 819, 220>>, <<820, 824, 1>>, <<825, 828, 220>>, <<829, 836, 230>>, <<837, 837, 240>>,
    <<838, 838, 230>>, <<839, 841, 220>>, <<842, 844, 230>>, <<845, 846, 220>>, <<848, 850, 230>>, <<851, 854, 220>>, <<855, 855, 230>>,
    <<856, 856, 232>>, <<857, 858, 220>>, <<859, 859, 230>>, <<860, 860, 233>>, <<861, 862, 234>>, <<863, 863, 233>>, <<864, 865, 234>>,
    <<866, 866, 233>>, <<867, 879, 230>>, <<1155, 1159, 230>>, <<1425, 1425, 220>>, <<1426, 1429, 230>>, <<1430, 1430, 220>>, <<1431, 1433, 230>>,
    <<1434, 1434, 222>>, <<1435, 1435, 220>>, <<1436, 1441, 230>>, <<1442, 1447, 220>>, <<1448, 1449, 230>>, <<1450, 1450, 220>>,
    <<1451, 1452, 230>>, <<1453, 1453, 222>>, <<1454, 1454, 228>>, <<1455, 1455, 230>>, <<1456, 1456, 10>>, <<1457, 1457, 11>>, <<1458, 1458, 12>>,
    <<1459, 1459, 13>>, <<1460, 1460, 14>>, <<1461, 1461, 15>>, <<1462, 1462, 16>>, <<1463, 1463, 17>>, <<1464, 1464, 18>>, <<1465, 1466, 19>>,
    <<1467, 1467, 20>>, <<1468, 1468, 21>>, <<1469, 1469, 22>>, <<1471, 1471, 23>>, <<1473, 1473, 24>>, <<1474, 1474, 25>>, <<1476, 1476, 230>>,
    <<1477, 1477, 220>>, <<1479, 1479, 18>>, <<1552, 1559, 230>>, <<1560, 1560, 30>>, <<1561, 1561, 31>>, <<1562, 1562, 32>>, <<1611, 1611, 27>>,
    <<1612, 1612, 28>>, <<1613, 1613, 29>>, <<1614, 1614, 30>>, <<1615, 1615, 31>>, <<1616, 1616, 32>>, <<1617, 1617, 33>>, <<1618, 1618, 34>>,
    <<1619, 1620, 230>>, <<1621, 1622, 220>>, <<1623, 1627, 230>>, <<1628, 1628, 220>>, <<1629, 1630, 230>>, <<1631, 1631, 220>>, <<1648, 1648, 35>>,
    <<1750, 1756, 230>>, <<1759, 1762, 230>>, <<1763, 1763, 220>>, <<1764, 1764, 230>>, <<1767, 1768, 230>>, <<1770, 1770, 220>>,
    <<1771, 1772, 230>>, <<1773, 1773, 220>>, <<1809, 1809, 36>>, <<1840, 1840, 230>>, <<1841, 1841, 220>>, <<1842, 1843, 230>>, <<1844, 1844, 220>>,
    <<1845, 1846, 230>>, <<1847, 1849, 220>>, <<1850, 1850, 230>>, <<1851, 1852, 220>>, <<1853, 1853, 230>>, <<1854, 1854, 220>>,
    <<1855, 1857, 230>>, <<1858, 1858, 220>>, <<1859, 1859, 230>>, <<1860, 1860, 220>>, <<1861, 1861, 230>>, <<1862, 1862, 220>>,
    <<1863, 1863, 230>>, <<1864, 1864, 220>>, <<1865, 1866, 230>>, <<2027, 2033, 230>>, <<2034, 2034, 220>>, <<2035, 2035, 230>>,
    <<2045, 2045, 220>>, <<2070, 2073, 230>>, <<2075, 2083, 230>>, <<2085, 2087, 230>>, <<2089, 2093, 230>>, <<2137, 2139, 220>>,
    <<2200, 2200, 230>>, <<2201, 2203, 220>>, <<2204, 2207, 230>>, <<2250, 2254, 230>>, <<2255, 2259, 220>>, <<2260, 2273, 230>>,
    <<2275, 2275, 220>>, <<2276, 2277, 230>>, <<2278, 2278, 220>>, <<2279, 2280, 230>>, <<2281, 2281, 220>>, <<2282, 2284, 230>>,
    <<2285, 2287, 220>>, <<2288, 2288, 27>>, <<2289, 2289, 28>>, <<2290, 2290, 29>>, <<2291, 2293, 230>>, <<2294, 2294, 220>>, <<2295, 2296, 230>>,
    <<2297, 2298, 220>>, <<2299, 2303, 230>>, <<2364, 2364, 7>>, <<2381, 2381, 9>>, <<2385, 2385, 230>>, <<2386, 2386, 220>>, <<2387, 2388, 230>>,
    <<2492, 2492, 7>>, <<2509, 2509, 9>>, <<2558, 2558, 230>>, <<2620, 2620, 7>>, <<2637, 2637, 9>>, <<2748, 2748, 7>>, <<2765, 2765, 9>>,
    <<2876, 2876, 7>>, <<2893, 2893, 9>>, <<3021, 3021, 9>>, <<3132, 3132, 7>>, <<3149, 3149, 9>>, <<3157, 3157, 84>>, <<3158, 3158, 91>>,
    <<3260, 3260, 7>>, <<3277, 3277, 9>>, <<3387, 3388, 9>>, <<3405, 3405, 9>>, <<3530, 3530, 9>>, <<3640, 3641, 103>>, <<3642, 3642, 9>>,
    <<3656, 3659, 107>>, <<3768, 3769, 118>>, <<3770, 3770, 9>>, <<3784, 3787, 122>>, <<3864, 3865, 220>>, <<3893, 3893, 220>>, <<3895, 3895, 220>>,
    <<3897, 3897, 216>>, <<3953, 3953, 129>>, <<3954, 3954, 130>>, <<3956, 3956, 132>>, <<3962, 3965, 130>>, <<3968, 3968, 130>>,
    <<3970, 3971, 230>>, <<3972, 3972, 9>>, <<3974, 3975, 230>>, <<4038, 4038, 220>>, <<4151, 4151, 7>>, <<4153, 4154, 9>>, <<4237, 4237, 220>>,
    <<4957, 4959, 230>>, <<5908, 5909, 9>>, <<5940, 5940, 9>>, <<6098, 6098, 9>>, <<6109, 6109, 230>>, <<6313, 6313, 228>>, <<6457, 6457, 222>>,
    <<6458, 6458, 230>>, <<6459, 6459, 220>>, <<6679, 6679, 230>>, <<6680, 6680, 220>>, <<6752, 6752, 9>>, <<6773, 6780, 230>>, <<6783, 6783, 220>>,
    <<6832, 6836, 230>>, <<6837, 6842, 220>>, <<6843, 6844, 230>>, <<6845, 6845, 220>>, <<6847, 6848, 220>>, <<6849, 6850, 230>>,
    <<6851, 6852, 220>>, <<6853, 6857, 230>>, <<6858, 6858, 220>>, <<6859, 6862, 230>>, <<6964, 6964, 7>>, <<6980, 6980, 9>>, <<7019, 7019, 230>>,
    <<7020, 7020, 220>>, <<7021, 7027, 230>>, <<7082, 7083, 9>>, <<7142, 7142, 7>>, <<7154, 7155, 9>>, <<7223, 7223, 7>>, <<7376, 7378, 230>>,
    <<7380, 7380, 1>>, <<7381, 7385, 220>>, <<7386, 7387, 230>>, <<7388, 7391, 220>>, <<7392, 7392, 230>>, <<7394, 7400, 1>>, <<7405, 7405, 220>>,
    <<7412, 7412, 230>>, <<7416, 7417, 230>>, <<7616, 7617, 230>>, <<7618, 7618, 220>>, <<7619, 7625, 230>>, <<7626, 7626, 220>>,
    <<7627, 7628, 230>>, <<7629, 7629, 234>>, <<7630, 7630, 214>>, <<7631, 7631, 220>>, <<7632, 7632, 202>>, <<7633, 7669, 230>>,
    <<7670, 7670, 232>>, <<7671, 7672, 228>>, <<7673, 7673, 220>>, <<7674, 7674, 218>>, <<7675, 7675, 230>>, <<7676, 7676, 233>>,
    <<7677, 7677, 220>>, <<7678, 7678, 230>>, <<7679, 7679, 220>>, <<8400, 8401, 230>>, <<8402, 8403, 1>>, <<8404, 8407, 230>>, <<8408, 8410, 1>>,
    <<8411, 8412, 230>>, <<8417, 8417, 230>>, <<8421, 8422, 1>>, <<8423, 8423, 230>>, <<8424, 8424, 220>>, <<8425, 8425, 230>>, <<8426, 8427, 1>>,
    <<8428, 8431, 220>>, <<8432, 8432, 230>>, <<11503, 11505, 230>>, <<11647, 11647, 9>>, <<11744, 11775, 230>>, <<12330, 12330, 218>>,
    <<12331, 12331, 228>>, <<12332, 12332, 232>>, <<12333, 12333, 222>>, <<12334, 12335, 224>>, <<12441, 12442, 8>>, <<42607, 42607, 230>>,
    <<42612, 42621, 230>>, <<42654, 42655, 230>>, <<42736, 42737, 230>>, <<43014, 43014, 9>>, <<43052, 43052, 9>>, <<43204, 43204, 9>>,
    <<43232, 43249, 230>>, <<43307, 43309, 220>>, <<43347, 43347, 9>>, <<43443, 43443, 7>>, <<43456, 43456, 9>>, <<43696, 43696, 230>>,
    <<43698, 43699, 230>>, <<43700, 43700, 220>>, <<43703, 43704, 230>>, <<43710, 43711, 230>>, <<43713, 43713, 230>>, <<43766, 43766, 9>>,
    <<44013, 44013, 9>>, <<64286, 64286, 26>>, <<65056, 65062, 230>>, <<65063, 65069, 220>>, <<65070, 65071, 230>>, <<66045, 66045, 220>>,
    <<66272, 66272, 220>>, <<66422, 66426, 230>>, <<68109, 68109, 220>>, <<68111, 68111, 230>>, <<68152, 68152, 230>>, <<68153, 68153, 1>>,
    <<68154, 68154, 220>>, <<68159, 68159, 9>>, <<68325, 68325, 230>>, <<68326, 68326, 220>>, <<68900, 68903, 230>>, <<69291, 69292, 230>>,
    <<69446, 69447, 220>>, <<69448, 69450, 230>>, <<69451, 69451, 220>>, <<69452, 69452, 230>>, <<69453, 69456, 220>>, <<69506, 69506, 230>>,
    <<69507, 69507, 220>>, <<69508, 69508, 230>>, <<69509, 69509, 220>>, <<69702, 69702, 9>>, <<69744, 69744, 9>>, <<69759, 69759, 9>>,
    <<69817, 69817, 9>>, <<69818, 69818, 7>>, <<69888, 69890, 230>>, <<69939, 69940, 9>>, <<70003, 70003, 7>>, <<70080, 70080, 9>>,
    <<70090, 70090, 7>>, <<70197, 70197, 9>>, <<70198, 70198, 7>>, <<70377, 70377, 7>>, <<70378, 70378, 9>>, <<70459, 70460, 7>>,
    <<70477, 70477, 9>>, <<70502, 70508, 230>>, <<70512, 70516, 230>>, <<70722, 70722, 9>>, <<70726, 70726, 7>>, <<70750, 70750, 230>>,
    <<70850, 70850, 9>>, <<70851, 70851, 7>>, <<71103, 71103, 9>>, <<71104, 71104, 7>>, <<71231, 71231, 9>>, <<71350, 71350, 9>>,
    <<71351, 71351, 7>>, <<71467, 71467, 9>>, <<71737, 71737, 9>>, <<71738, 71738, 7>>, <<71997, 71998, 9>>, <<72003, 72003, 7>>,
    <<72160, 72160, 9>>, <<72244, 72244, 9>>, <<72263, 72263, 9>>, <<72345, 72345, 9>>, <<72767, 72767, 9>>, <<73026, 73026, 7>>,
    <<73028, 73029, 9>>, <<73111, 73111, 9>>, <<92912, 92916, 1>>, <<92976, 92982, 230>>, <<94192, 94193, 6>>, <<113822, 113822, 1>>,
    <<119141, 119142, 216>>, <<119143, 119145, 1>>, <<119149, 119149, 226>>, <<119150, 119154, 216>>, <<119163, 119170, 220>>,
    <<119173, 119177, 230>>, <<119178, 119179, 220>>, <<119210, 119213, 230>>, <<119362, 119364, 230>>, <<122880, 122886, 230>>,
    <<122888, 122904, 230>>, <<122907, 122913, 230>>, <<122915, 122916, 230>>, <<122918, 122922, 230>>, <<123184, 123190, 230>>,
    <<123566, 123566, 230>>, <<123628, 123631, 230>>, <<125136, 125142, 220>>, <<125252, 125257, 230>>, <<125258, 125258, 7>>
    >>

\* the pairs that compose (the mappings to a pair that are not excluded from composition):
\* rows <<first, <<<<second, composite>>, ...>>>>, sorted on first and on second
PrimaryComposites == <<
    <<60, <<<<824, 8814>>>>>>, <<61, <<<<824, 8800>>>>>>, <<62, <<<<824, 8815>>>>>>,
    <<65, <<<<768, 192>>, <<769, 193>>, <<770, 194>>, <<771, 195>>, <<772, 256>>, <<774, 258>>, <<775, 550>>, <<776, 196>>, <<777, 7842>>, <<778, 197>>, <<780, 461>>, <<783, 512>>, <<785, 514>>, <<803, 7840>>, <<805, 7680>>, <<808, 260>>>>>>,
    <<66, <<<<775, 7682>>, <<803, 7684>>, <<817, 7686>>>>>>, <<67, <<<<769, 262>>, <<770, 264>>, <<775, 266>>, <<780, 268>>, <<807, 199>>>>>>,
    <<68, <<<<775, 7690>>, <<780, 270>>, <<803, 7692>>, <<807, 7696>>, <<813, 7698>>, <<817, 7694>>>>>>,
    <<69, <<<<768, 200>>, <<769, 201>>, <<770, 202>>, <<771, 7868>>, <<772, 274>>, <<774, 276>>, <<775, 278>>, <<776, 203>>, <<777, 7866>>, <<780, 282>>, <<783, 516>>, <<785, 518>>, <<803, 7864>>, <<807, 552>>, <<808, 280>>, <<813, 7704>>, <<816, 7706>>>>>>,
    <<70, <<<<775, 7710>>>>>>, <<71, <<<<769, 500>>, <<770, 284>>, <<772, 7712>>, <<774, 286>>, <<775, 288>>, <<780, 486>>, <<807, 290>>>>>>,
    <<72, <<<<770, 292>>, <<775, 7714>>, <<776, 7718>>, <<780, 542>>, <<803, 7716>>, <<807, 7720>>, <<814, 7722>>>>>>,
    <<73, <<<<768, 204>>, <<769, 205>>, <<770, 206>>, <<771, 296>>, <<772, 298>>, <<774, 300>>, <<775, 304>>, <<776, 207>>, <<777, 7880>>, <<780, 463>>, <<783, 520>>, <<785, 522>>, <<803, 7882>>, <<808, 302>>, <<816, 7724>>>>>>,
    <<74, <<<<770, 308>>>>>>, <<75, <<<<769, 7728>>, <<780, 488>>, <<803, 7730>>, <<807, 310>>, <<817, 7732>>>>>>,
    <<76, <<<<769, 313>>, <<780, 317>>, <<803, 7734>>, <<807, 315>>, <<813, 7740>>, <<817, 7738>>>>>>,
    <<77, <<<<769, 7742>>, <<775, 7744>>, <<803, 7746>>>>>>,
    <<78, <<<<768, 504>>, <<769, 323>>, <<771, 209>>, <<775, 7748>>, <<780, 327>>, <<803, 7750>>, <<807, 325>>, <<813, 7754>>, <<817, 7752>>>>>>,
    <<79, <<<<768, 210>>, <<769, 211>>, <<770, 212>>, <<771, 213>>, <<772, 332>>, <<774, 334>>, <<775, 558>>, <<776, 214>>, <<777, 7886>>, <<779, 336>>, <<780, 465>>, <<783, 524>>, <<785, 526>>, <<795, 416>>, <<803, 7884>>, <<808, 490>>>>>>,
    <<80, <<<<769, 7764>>, <<775, 7766>>>>>>,
    <<82, <<<<769, 340>>, <<775, 7768>>, <<780, 344>>, <<783, 528>>, <<785, 530>>, <<803, 7770>>, <<807, 342>>, <<817, 7774>>>>>>,
    <<83, <<<<769, 346>>, <<770, 348>>, <<775, 7776>>, <<780, 352>>, <<803, 7778>>, <<806, 536>>, <<807, 350>>>>>>,
    <<84, <<<<775, 7786>>, <<780, 356>>, <<803, 7788>>, <<806, 538>>, <<807, 354>>, <<813, 7792>>, <<817, 7790>>>>>>,
    <<85, <<<<768, 217>>, <<769, 218>>, <<770, 219>>, <<771, 360>>, <<772, 362>>, <<774, 364>>, <<776, 220>>, <<777, 7910>>, <<778, 366>>, <<779, 368>>, <<780, 467>>, <<783, 532>>, <<785, 534>>, <<795, 431>>, <<803, 7908>>, <<804, 7794>>, <<808, 370>>, <<813, 7798>>, <<816, 7796>>>>>>,
    <<86, <<<<771, 7804>>, <<803, 7806>>>>>>, <<87, <<<<768, 7808>>, <<769, 7810>>, <<770, 372>>, <<775, 7814>>, <<776, 7812>>, <<803, 7816>>>>>>,
    <<88, <<<<775, 7818>>, <<776, 7820>>>>>>,
    <<89, <<<<768, 7922>>, <<769, 221>>, <<770, 374>>, <<771, 7928>>, <<772, 562>>, <<775, 7822>>, <<776, 376>>, <<777, 7926>>, <<803, 7924>>>>>>,
    <<90, <<<<769, 377>>, <<770, 7824>>, <<775, 379>>, <<780, 381>>, <<803, 7826>>, <<817, 7828>>>>>>,
    <<97, <<<<768, 224>>, <<769, 225>>, <<770, 226>>, <<771, 227>>, <<772, 257>>, <<774, 259>>, <<775, 551>>, <<776, 228>>, <<777, 7843>>, <<778, 229>>, <<780, 462>>, <<783, 513>>, <<785, 515>>, <<803, 7841>>, <<805, 7681>>, <<808, 261>>>>>>,
    <<98, <<<<775, 7683>>, <<803, 7685>>, <<817, 7687>>>>>>, <<99, <<<<769, 263>>, <<770, 265>>, <<775, 267>>, <<780, 269>>, <<807, 231>>>>>>,
    <<100, <<<<775, 7691>>, <<780, 271>>, <<803, 7693>>, <<807, 7697>>, <<813, 7699>>, <<817, 7695>>>>>>,
    <<101, <<<<768, 232>>, <<769, 233>>, <<770, 234>>, <<771, 7869>>, <<772, 275>>, <<774, 277>>, <<775, 279>>, <<776, 235>>, <<777, 7867>>, <<780, 283>>, <<783, 517>>, <<785, 519>>, <<803, 7865>>, <<807, 553>>, <<808, 281>>, <<813, 7705>>, <<816, 7707>>>>>>,
    <<102, <<<<775, 7711>>>>>>, <<103, <<<<769, 501>>, <<770, 285>>, <<772, 7713>>, <<774, 287>>, <<775, 289>>, <<780, 487>>, <<807, 291>>>>>>,
    <<104, <<<<770, 293>>, <<775, 7715>>, <<776, 7719>>, <<780, 543>>, <<803, 7717>>, <<807, 7721>>, <<814, 7723>>, <<817, 7830>>>>>>,
    <<105, <<<<768, 236>>, <<769, 237>>, <<770, 238>>, <<771, 297>>, <<772, 299>>, <<774, 301>>, <<776, 239>>, <<777, 7881>>, <<780, 464>>, <<783, 521>>, <<785, 523>>, <<803, 7883>>, <<808, 303>>, <<816, 7725>>>>>>,
    <<106, <<<<770, 309>>, <<780, 496>>>>>>, <<107, <<<<769, 7729>>, <<780, 489>>, <<803, 7731>>, <<807, 311>>, <<817, 7733>>>>>>,
    <<108, <<<<769, 314>>, <<780, 318>>, <<803, 7735>>, <<807, 316>>, <<813, 7741>>, <<817, 7739>>>>>>,
    <<109, <<<<769, 7743>>, <<775, 7745>>, <<803, 7747>>>>>>,
    <<110, <<<<768, 505>>, <<769, 324>>, <<771, 241>>, <<775, 7749>>, <<780, 328>>, <<803, 7751>>, <<807, 326>>, <<813, 7755>>, <<817, 7753>>>>>>,
    <<111, <<<<768, 242>>, <<769, 243>>, <<770, 244>>, <<771, 245>>, <<772, 333>>, <<774, 335>>, <<775, 559>>, <<776, 246>>, <<777, 7887>>, <<779, 337>>, <<780, 466>>, <<783, 525>>, <<785, 527>>, <<795, 417>>, <<803, 7885>>, <<808, 491>>>>>>,
    <<112, <<<<769, 7765>>, <<775, 7767>>>>>>,
    <<114, <<<<769, 341>>, <<775, 7769>>, <<780, 345>>, <<783, 529>>, <<785, 531>>, <<803, 7771>>, <<807, 343>>, <<817, 7775>>>>>>,
    <<115, <<<<769, 347>>, <<770, 349>>, <<775, 7777>>, <<780, 353>>, <<803, 7779>>, <<806, 537>>, <<807, 351>>>>>>,
    <<116, <<<<775, 7787>>, <<776, 7831>>, <<780, 357>>, <<803, 7789>>, <<806, 539>>, <<807, 355>>, <<813, 7793>>, <<817, 7791>>>>>>,
    <<117, <<<<768, 249>>, <<769, 250>>, <<770, 251>>, <<771, 361>>, <<772, 363>>, <<774, 365>>, <<776, 252>>, <<777, 7911>>, <<778, 367>>, <<779, 369>>, <<780, 468>>, <<783, 533>>, <<785, 535>>, <<795, 432>>, <<803, 7909>>, <<804, 7795>>, <<808, 371>>, <<813, 7799>>, <<816, 7797>>>>>>,
    <<118, <<<<771, 7805>>, <<803, 7807>>>>>>,
    <<119, <<<<768, 7809>>, <<769, 7811>>, <<770, 373>>, <<775, 7815>>, <<776, 7813>>, <<778, 7832>>, <<803, 7817>>>>>>,
    <<120, <<<<775, 7819>>, <<776, 7821>>>>>>,
    <<121, <<<<768, 7923>>, <<769, 253>>, <<770, 375>>, <<771, 7929>>, <<772, 563>>, <<775, 7823>>, <<776, 255>>, <<777, 7927>>, <<778, 7833>>, <<803, 7925>>>>>>,
    <<122, <<<<769, 378>>, <<770, 7825>>, <<775, 380>>, <<780, 382>>, <<803, 7827>>, <<817, 7829>>>>>>,
    <<168, <<<<768, 8173>>, <<769, 901>>, <<834, 8129>>>>>>, <<194, <<<<768, 7846>>, <<769, 7844>>, <<771, 7850>>, <<777, 7848>>>>>>,
    <<196, <<<<772, 478>>>>>>, <<197, <<<<769, 506>>>>>>, <<198, <<<<769, 508>>, <<772, 482>>>>>>, <<199, <<<<769, 7688>>>>>>,
    <<202, <<<<768, 7872>>, <<769, 7870>>, <<771, 7876>>, <<777, 7874>>>>>>, <<207, <<<<769, 7726>>>>>>,
    <<212, <<<<768, 7890>>, <<769, 7888>>, <<771, 7894>>, <<777, 7892>>>>>>, <<213, <<<<769, 7756>>, <<772, 556>>, <<776, 7758>>>>>>,
    <<214, <<<<772, 554>>>>>>, <<216, <<<<769, 510>>>>>>, <<220, <<<<768, 475>>, <<769, 471>>, <<772, 469>>, <<780, 473>>>>>>,
    <<226, <<<<768, 7847>>, <<769, 7845>>, <<771, 7851>>, <<777, 7849>>>>>>, <<228, <<<<772, 479>>>>>>, <<229, <<<<769, 507>>>>>>,
    <<230, <<<<769, 509>>, <<772, 483>>>>>>, <<231, <<<<769, 7689>>>>>>, <<234, <<<<768, 7873>>, <<769, 7871>>, <<771, 7877>>, <<777, 7875>>>>>>,
    <<239, <<<<769, 7727>>>>>>, <<244, <<<<768, 7891>>, <<769, 7889>>, <<771, 7895>>, <<777, 7893>>>>>>,
    <<245, <<<<769, 7757>>, <<772, 557>>, <<776, 7759>>>>>>, <<246, <<<<772, 555>>>>>>, <<248, <<<<769, 511>>>>>>,
    <<252, <<<<768, 476>>, <<769, 472>>, <<772, 470>>, <<780, 474>>>>>>, <<258, <<<<768, 7856>>, <<769, 7854>>, <<771, 7860>>, <<777, 7858>>>>>>,
    <<259, <<<<768, 7857>>, <<769, 7855>>, <<771, 7861>>, <<777, 7859>>>>>>, <<274, <<<<768, 7700>>, <<769, 7702>>>>>>,
    <<275, <<<<768, 7701>>, <<769, 7703>>>>>>, <<332, <<<<768, 7760>>, <<769, 7762>>>>>>, <<333, <<<<768, 7761>>, <<769, 7763>>>>>>,
    <<346, <<<<775, 7780>>>>>>, <<347, <<<<775, 7781>>>>>>, <<352, <<<<775, 7782>>>>>>, <<353, <<<<775, 7783>>>>>>, <<360, <<<<769, 7800>>>>>>,
    <<361, <<<<769, 7801>>>>>>, <<362, <<<<776, 7802>>>>>>, <<363, <<<<776, 7803>>>>>>, <<383, <<<<775, 7835>>>>>>,
    <<416, <<<<768, 7900>>, <<769, 7898>>, <<771, 7904>>, <<777, 7902>>, <<803, 7906>>>>>>,
    <<417, <<<<768, 7901>>, <<769, 7899>>, <<771, 7905>>, <<777, 7903>>, <<803, 7907>>>>>>,
    <<431, <<<<768, 7914>>, <<769, 7912>>, <<771, 7918>>, <<777, 7916>>, <<803, 7920>>>>>>,
    <<432, <<<<768, 7915>>, <<769, 7913>>, <<771, 7919>>, <<777, 7917>>, <<803, 7921>>>>>>, <<439, <<<<780, 494>>>>>>, <<490, <<<<772, 492>>>>>>,
    <<491, <<<<772, 493>>>>>>, <<550, <<<<772, 480>>>>>>, <<551, <<<<772, 481>>>>>>, <<552, <<<<774, 7708>>>>>>, <<553, <<<<774, 7709>>>>>>,
    <<558, <<<<772, 560>>>>>>, <<559, <<<<772, 561>>>>>>, <<658, <<<<780, 495>>>>>>,
    <<913, <<<<768, 8122>>, <<769, 902>>, <<772, 8121>>, <<774, 8120>>, <<787, 7944>>, <<788, 7945>>, <<837, 8124>>>>>>,
    <<917, <<<<768, 8136>>, <<769, 904>>, <<787, 7960>>, <<788, 7961>>>>>>,
    <<919, <<<<768, 8138>>, <<769, 905>>, <<787, 7976>>, <<788, 7977>>, <<837, 8140>>>>>>,
    <<921, <<<<768, 8154>>, <<769, 906>>, <<772, 8153>>, <<774, 8152>>, <<776, 938>>, <<787, 7992>>, <<788, 7993>>>>>>,
    <<927, <<<<768, 8184>>, <<769, 908>>, <<787, 8008>>, <<788, 8009>>>>>>, <<929, <<<<788, 8172>>>>>>,
    <<933, <<<<768, 8170>>, <<769, 910>>, <<772, 8169>>, <<774, 8168>>, <<776, 939>>, <<788, 8025>>>>>>,
    <<937, <<<<768, 8186>>, <<769, 911>>, <<787, 8040>>, <<788, 8041>>, <<837, 8188>>>>>>, <<940, <<<<837, 8116>>>>>>, <<942, <<<<837, 8132>>>>>>,
    <<945, <<<<768, 8048>>, <<769, 940>>, <<772, 8113>>, <<774, 8112>>, <<787, 7936>>, <<788, 7937>>, <<834, 8118>>, <<837, 8115>>>>>>,
    <<949, <<<<768, 8050>>, <<769, 941>>, <<787, 7952>>, <<788, 7953>>>>>>,
    <<951, <<<<768, 8052>>, <<769, 942>>, <<787, 7968>>, <<788, 7969>>, <<834, 8134>>, <<837, 8131>>>>>>,
    <<953, <<<<768, 8054>>, <<769, 943>>, <<772, 8145>>, <<774, 8144>>, <<776, 970>>, <<787, 7984>>, <<788, 7985>>, <<834, 8150>>>>>>,
    <<959, <<<<768, 8056>>, <<769, 972>>, <<787, 8000>>, <<788, 8001>>>>>>, <<961, <<<<787, 8164>>, <<788, 8165>>>>>>,
    <<965, <<<<768, 8058>>, <<769, 973>>, <<772, 8161>>, <<774, 8160>>, <<776, 971>>, <<787, 8016>>, <<788, 8017>>, <<834, 8166>>>>>>,
    <<969, <<<<768, 8060>>, <<769, 974>>, <<787, 8032>>, <<788, 8033>>, <<834, 8182>>, <<837, 8179>>>>>>,
    <<970, <<<<768, 8146>>, <<769, 912>>, <<834, 8151>>>>>>, <<971, <<<<768, 8162>>, <<769, 944>>, <<834, 8167>>>>>>, <<974, <<<<837, 8180>>>>>>,
    <<978, <<<<769, 979>>, <<776, 980>>>>>>, <<1030, <<<<776, 1031>>>>>>, <<1040, <<<<774, 1232>>, <<776, 1234>>>>>>, <<1043, <<<<769, 1027>>>>>>,
    <<1045, <<<<768, 1024>>, <<774, 1238>>, <<776, 1025>>>>>>, <<1046, <<<<774, 1217>>, <<776, 1244>>>>>>, <<1047, <<<<776, 1246>>>>>>,
    <<1048, <<<<768, 1037>>, <<772, 1250>>, <<774, 1049>>, <<776, 1252>>>>>>, <<1050, <<<<769, 1036>>>>>>, <<1054, <<<<776, 1254>>>>>>,
    <<1059, <<<<772, 1262>>, <<774, 1038>>, <<776, 1264>>, <<779, 1266>>>>>>, <<1063, <<<<776, 1268>>>>>>, <<1067, <<<<776, 1272>>>>>>,
    <<1069, <<<<776, 1260>>>>>>, <<1072, <<<<774, 1233>>, <<776, 1235>>>>>>, <<1075, <<<<769, 1107>>>>>>,
    <<1077, <<<<768, 1104>>, <<774, 1239>>, <<776, 1105>>>>>>, <<1078, <<<<774, 1218>>, <<776, 1245>>>>>>, <<1079, <<<<776, 1247>>>>>>,
    <<1080, <<<<768, 1117>>, <<772, 1251>>, <<774, 1081>>, <<776, 1253>>>>>>, <<1082, <<<<769, 1116>>>>>>, <<1086, <<<<776, 1255>>>>>>,
    <<1091, <<<<772, 1263>>, <<774, 1118>>, <<776, 1265>>, <<779, 1267>>>>>>, <<1095, <<<<776, 1269>>>>>>, <<1099, <<<<776, 1273>>>>>>,
    <<1101, <<<<776, 1261>>>>>>, <<1110, <<<<776, 1111>>>>>>, <<1140, <<<<783, 1142>>>>>>, <<1141, <<<<783, 1143>>>>>>, <<1240, <<<<776, 1242>>>>>>,
    <<1241, <<<<776, 1243>>>>>>, <<1256, <<<<776, 1258>>>>>>, <<1257, <<<<776, 1259>>>>>>,
    <<1575, <<<<1619, 1570>>, <<1620, 1571>>, <<1621, 1573>>>>>>, <<1608, <<<<1620, 1572>>>>>>, <<1610, <<<<1620, 1574>>>>>>,
    <<1729, <<<<1620, 1730>>>>>>, <<1746, <<<<1620, 1747>>>>>>, <<1749, <<<<1620, 1728>>>>>>, <<2344, <<<<2364, 2345>>>>>>,
    <<2352, <<<<2364, 2353>>>>>>, <<2355, <<<<2364, 2356>>>>>>, <<2503, <<<<2494, 2507>>, <<2519, 2508>>>>>>,
    <<2887, <<<<2878, 2891>>, <<2902, 2888>>, <<2903, 2892>>>>>>, <<2962, <<<<3031, 2964>>>>>>, <<3014, <<<<3006, 3018>>, <<3031, 3020>>>>>>,
    <<3015, <<<<3006, 3019>>>>>>, <<3142, <<<<3158, 3144>>>>>>, <<3263, <<<<3285, 3264>>>>>>,
    <<3270, <<<<3266, 3274>>, <<3285, 3271>>, <<3286, 3272>>>>>>, <<3274, <<<<3285, 3275>>>>>>, <<3398, <<<<3390, 3402>>, <<3415, 3404>>>>>>,
    <<3399, <<<<3390, 3403>>>>>>, <<3545, <<<<3530, 3546>>, <<3535, 3548>>, <<3551, 3550>>>>>>, <<3548, <<<<3530, 3549>>>>>>,
    <<4133, <<<<4142, 4134>>>>>>, <<6917, <<<<6965, 6918>>>>>>, <<6919, <<<<6965, 6920>>>>>>, <<6921, <<<<6965, 6922>>>>>>,
    <<6923, <<<<6965, 6924>>>>>>, <<6925, <<<<6965, 6926>>>>>>, <<6929, <<<<6965, 6930>>>>>>, <<6970, <<<<6965, 6971>>>>>>,
    <<6972, <<<<6965, 6973>>>>>>, <<6974, <<<<6965, 6976>>>>>>, <<6975, <<<<6965, 6977>>>>>>, <<6978, <<<<6965, 6979>>>>>>,
    <<7734, <<<<772, 7736>>>>>>, <<7735, <<<<772, 7737>>>>>>, <<7770, <<<<772, 7772>>>>>>, <<7771, <<<<772, 7773>>>>>>, <<7778, <<<<775, 7784>>>>>>,
    <<7779, <<<<775, 7785>>>>>>, <<7840, <<<<770, 7852>>, <<774, 7862>>>>>>, <<7841, <<<<770, 7853>>, <<774, 7863>>>>>>, <<7864, <<<<770, 7878>>>>>>,
    <<7865, <<<<770, 7879>>>>>>, <<7884, <<<<770, 7896>>>>>>, <<7885, <<<<770, 7897>>>>>>,
    <<7936, <<<<768, 7938>>, <<769, 7940>>, <<834, 7942>>, <<837, 8064>>>>>>,
    <<7937, <<<<768, 7939>>, <<769, 7941>>, <<834, 7943>>, <<837, 8065>>>>>>, <<7938, <<<<837, 8066>>>>>>, <<7939, <<<<837, 8067>>>>>>,
    <<7940, <<<<837, 8068>>>>>>, <<7941, <<<<837, 8069>>>>>>, <<7942, <<<<837, 8070>>>>>>, <<7943, <<<<837, 8071>>>>>>,
    <<7944, <<<<768, 7946>>, <<769, 7948>>, <<834, 7950>>, <<837, 8072>>>>>>,
    <<7945, <<<<768, 7947>>, <<769, 7949>>, <<834, 7951>>, <<837, 8073>>>>>>, <<7946, <<<<837, 8074>>>>>>, <<7947, <<<<837, 8075>>>>>>,
    <<7948, <<<<837, 8076>>>>>>, <<7949, <<<<837, 8077>>>>>>, <<7950, <<<<837, 8078>>>>>>, <<7951, <<<<837, 8079>>>>>>,
    <<7952, <<<<768, 7954>>, <<769, 7956>>>>>>, <<7953, <<<<768, 7955>>, <<769, 7957>>>>>>, <<7960, <<<<768, 7962>>, <<769, 7964>>>>>>,
    <<7961, <<<<768, 7963>>, <<769, 7965>>>>>>, <<7968, <<<<768, 7970>>, <<769, 7972>>, <<834, 7974>>, <<837, 8080>>>>>>,
    <<7969, <<<<768, 7971>>, <<769, 7973>>, <<834, 7975>>, <<837, 8081>>>>>>, <<7970, <<<<837, 8082>>>>>>, <<7971, <<<<837, 8083>>>>>>,
    <<7972, <<<<837, 8084>>>>>>, <<7973, <<<<837, 8085>>>>>>, <<7974, <<<<837, 8086>>>>>>, <<7975, <<<<837, 8087>>>>>>,
    <<7976, <<<<768, 7978>>, <<769, 7980>>, <<834, 7982>>, <<837, 8088>>>>>>,
    <<7977, <<<<768, 7979>>, <<769, 7981>>, <<834, 7983>>, <<837, 8089>>>>>>, <<7978, <<<<837, 8090>>>>>>, <<7979, <<<<837, 8091>>>>>>,
    <<7980, <<<<837, 8092>>>>>>, <<7981, <<<<837, 8093>>>>>>, <<7982, <<<<837, 8094>>>>>>, <<7983, <<<<837, 8095>>>>>>,
    <<7984, <<<<768, 7986>>, <<769, 7988>>, <<834, 7990>>>>>>, <<7985, <<<<768, 7987>>, <<769, 7989>>, <<834, 7991>>>>>>,
    <<7992, <<<<768, 7994>>, <<769, 7996>>, <<834, 7998>>>>>>, <<7993, <<<<768, 7995>>, <<769, 7997>>, <<834, 7999>>>>>>,
    <<8000, <<<<768, 8002>>, <<769, 8004>>>>>>, <<8001, <<<<768, 8003>>, <<769, 8005>>>>>>, <<8008, <<<<768, 8010>>, <<769, 8012>>>>>>,
    <<8009, <<<<768, 8011>>, <<769, 8013>>>>>>, <<8016, <<<<768, 8018>>, <<769, 8020>>, <<834, 8022>>>>>>,
    <<8017, <<<<768, 8019>>, <<769, 8021>>, <<834, 8023>>>>>>, <<8025, <<<<768, 8027>>, <<769, 8029>>, <<834, 8031>>>>>>,
    <<8032, <<<<768, 8034>>, <<769, 8036>>, <<834, 8038>>, <<837, 8096>>>>>>,
    <<8033, <<<<768, 8035>>, <<769, 8037>>, <<834, 8039>>, <<837, 8097>>>>>>, <<8034, <<<<837, 8098>>>>>>, <<8035, <<<<837, 8099>>>>>>,
    <<8036, <<<<837, 8100>>>>>>, <<8037, <<<<837, 8101>>>>>>, <<8038, <<<<837, 8102>>>>>>, <<8039, <<<<837, 8103>>>>>>,
    <<8040, <<<<768, 8042>>, <<769, 8044>>, <<834, 8046>>, <<837, 8104>>>>>>,
    <<8041, <<<<768, 8043>>, <<769, 8045>>, <<834, 8047>>, <<837, 8105>>>>>>, <<8042, <<<<837, 8106>>>>>>, <<8043, <<<<837, 8107>>>>>>,
    <<8044, <<<<837, 8108>>>>>>, <<8045, <<<<837, 8109>>>>>>, <<8046, <<<<837, 8110>>>>>>, <<8047, <<<<837, 8111>>>>>>, <<8048, <<<<837, 8114>>>>>>,
    <<8052, <<<<837, 8130>>>>>>, <<8060, <<<<837, 8178>>>>>>, <<8118, <<<<837, 8119>>>>>>, <<8127, <<<<768, 8141>>, <<769, 8142>>, <<834, 8143>>>>>>,
    <<8134, <<<<837, 8135>>>>>>, <<8182, <<<<837, 8183>>>>>>, <<8190, <<<<768, 8157>>, <<769, 8158>>, <<834, 8159>>>>>>, <<8592, <<<<824, 8602>>>>>>,
    <<8594, <<<<824, 8603>>>>>>, <<8596, <<<<824, 8622>>>>>>, <<8656, <<<<824, 8653>>>>>>, <<8658, <<<<824, 8655>>>>>>, <<8660, <<<<824, 8654>>>>>>,
    <<8707, <<<<824, 8708>>>>>>, <<8712, <<<<824, 8713>>>>>>, <<8715, <<<<824, 8716>>>>>>, <<8739, <<<<824, 8740>>>>>>, <<8741, <<<<824, 8742>>>>>>,
    <<8764, <<<<824, 8769>>>>>>, <<8771, <<<<824, 8772>>>>>>, <<8773, <<<<824, 8775>>>>>>, <<8776, <<<<824, 8777>>>>>>, <<8781, <<<<824, 8813>>>>>>,
    <<8801, <<<<824, 8802>>>>>>, <<8804, <<<<824, 8816>>>>>>, <<8805, <<<<824, 8817>>>>>>, <<8818, <<<<824, 8820>>>>>>, <<8819, <<<<824, 8821>>>>>>,
    <<8822, <<<<824, 8824>>>>>>, <<8823, <<<<824, 8825>>>>>>, <<8826, <<<<824, 8832>>>>>>, <<8827, <<<<824, 8833>>>>>>, <<8828, <<<<824, 8928>>>>>>,
    <<8829, <<<<824, 8929>>>>>>, <<8834, <<<<824, 8836>>>>>>, <<8835, <<<<824, 8837>>>>>>, <<8838, <<<<824, 8840>>>>>>, <<8839, <<<<824, 8841>>>>>>,
    <<8849, <<<<824, 8930>>>>>>, <<8850, <<<<824, 8931>>>>>>, <<8866, <<<<824, 8876>>>>>>, <<8872, <<<<824, 8877>>>>>>, <<8873, <<<<824, 8878>>>>>>,
    <<8875, <<<<824, 8879>>>>>>, <<8882, <<<<824, 8938>>>>>>, <<8883, <<<<824, 8939>>>>>>, <<8884, <<<<824, 8940>>>>>>, <<8885, <<<<824, 8941>>>>>>,
    <<12358, <<<<12441, 12436>>>>>>, <<12363, <<<<12441, 12364>>>>>>, <<12365, <<<<12441, 12366>>>>>>, <<12367, <<<<12441, 12368>>>>>>,
    <<12369, <<<<12441, 12370>>>>>>, <<12371, <<<<12441, 12372>>>>>>, <<12373, <<<<12441, 12374>>>>>>, <<12375, <<<<12441, 12376>>>>>>,
    <<12377, <<<<12441, 12378>>>>>>, <<12379, <<<<12441, 12380>>>>>>, <<12381, <<<<12441, 12382>>>>>>, <<12383, <<<<12441, 12384>>>>>>,
    <<12385, <<<<12441, 12386>>>>>>, <<12388, <<<<12441, 12389>>>>>>, <<12390, <<<<12441, 12391>>>>>>, <<12392, <<<<12441, 12393>>>>>>,
    <<12399, <<<<12441, 12400>>, <<12442, 12401>>>>>>, <<12402, <<<<12441, 12403>>, <<12442, 12404>>>>>>,
    <<12405, <<<<12441, 12406>>, <<12442, 12407>>>>>>, <<12408, <<<<12441, 12409>>, <<12442, 12410>>>>>>,
    <<12411, <<<<12441, 12412>>, <<12442, 12413>>>>>>, <<12445, <<<<12441, 12446>>>>>>, <<12454, <<<<12441, 12532>>>>>>,
    <<12459, <<<<12441, 12460>>>>>>, <<12461, <<<<12441, 12462>>>>>>, <<12463, <<<<12441, 12464>>>>>>, <<12465, <<<<12441, 12466>>>>>>,
    <<12467, <<<<12441, 12468>>>>>>, <<12469, <<<<12441, 12470>>>>>>, <<12471, <<<<12441, 12472>>>>>>, <<12473, <<<<12441, 12474>>>>>>,
    <<12475, <<<<12441, 12476>>>>>>, <<12477, <<<<12441, 12478>>>>>>, <<12479, <<<<12441, 12480>>>>>>, <<12481, <<<<12441, 12482>>>>>>,
    <<12484, <<<<12441, 12485>>>>>>, <<12486, <<<<12441, 12487>>>>>>, <<12488, <<<<12441, 12489>>>>>>,
    <<12495, <<<<12441, 12496>>, <<12442, 12497>>>>>>, <<12498, <<<<12441, 12499>>, <<12442, 12500>>>>>>,
    <<12501, <<<<12441, 12502>>, <<12442, 12503>>>>>>, <<12504, <<<<12441, 12505>>, <<12442, 12506>>>>>>,
    <<12507, <<<<12441, 12508>>, <<12442, 12509>>>>>>, <<12527, <<<<12441, 12535>>>>>>, <<12528, <<<<12441, 12536>>>>>>,
    <<12529, <<<<12441, 12537>>>>>>, <<12530, <<<<12441, 12538>>>>>>, <<12541, <<<<12441, 12542>>>>>>, <<69785, <<<<69818, 69786>>>>>>,
    <<69787, <<<<69818, 69788>>>>>>, <<69797, <<<<69818, 69803>>>>>>, <<69937, <<<<69927, 69934>>>>>>, <<69938, <<<<69927, 69935>>>>>>,
    <<70471, <<<<70462, 70475>>, <<70487, 70476>>>>>>, <<70841, <<<<70832, 70844>>, <<70842, 70843>>, <<70845, 70846>>>>>>,
    <<71096, <<<<71087, 71098>>>>>>, <<71097, <<<<71087, 71099>>>>>>, <<71989, <<<<71984, 71992>>>>>>
    >>

\* the index of the last row among lo..hi of a sorted table whose first entry is at most c, lo - 1 if none
\* (a binary search)
RECURSIVE FloorRow(_, _, _, _)
FloorRow(table, c, lo, hi) == IF lo > hi THEN hi
                              ELSE IF table[(lo + hi) \div 2][1] <= c THEN FloorRow(table, c, (lo + hi) \div 2 + 1, hi)
                              ELSE FloorRow(table, c, lo, (lo + hi) \div 2 - 1)

\* the last row of a sorted table whose first entry is at most c, a row of -1 if none
RowFor(table, c) == IF Len(table) = 0 \/ c < table[1][1] THEN <<-1, -1, -1>> ELSE table[FloorRow(table, c, 1, Len(table))]

\* unicodedata.decomposition(c) when it is canonical, the character itself when there is none
Decomposition(c) == IF RowFor(CanonicalMappings, c)[1] # c THEN <<c>>
                    ELSE IF RowFor(CanonicalMappings, c)[3] = 0 THEN <<RowFor(CanonicalMappings, c)[2]>>
                    ELSE <<RowFor(CanonicalMappings, c)[2], RowFor(CanonicalMappings, c)[3]>>

\* unicodedata.combining(c)
CombiningClass(c) == IF c <= RowFor(CombiningClasses, c)[2] THEN RowFor(CombiningClasses, c)[3] ELSE 0

\* the Hangul syllables, and the leading, vowel and trailing jamo they are made of
SBase == 44032

LBase == 4352

VBase == 4449

TBase == 4519

LCount == 19

VCount == 21

TCount == 28

IsSyllable(c) == SBase <= c /\ c < SBase + LCount * VCount * TCount

\* a syllable decomposed: leading and vowel jamo, and the trailing jamo if it has one
HangulDecomposition(c) == <<LBase + (c - SBase) \div (VCount * TCount), VBase + ((c - SBase) % (VCount * TCount)) \div TCount>>
                          \o (IF (c - SBase) % TCount = 0 THEN <<>> ELSE <<TBase + ((c - SBase) % TCount)>>)

\* the primary composite of a and b, 0 if there is none
TableComposite(a, b) == IF RowFor(PrimaryComposites, a)[1] # a THEN 0
                        ELSE IF RowFor(RowFor(PrimaryComposites, a)[2], b)[1] # b THEN 0
                        ELSE RowFor(RowFor(PrimaryComposites, a)[2], b)[2]

\* what a and b, characters of a decomposed text, compose to, 0 if they do not compose: a leading
\* and a vowel jamo, a syllable without trailing jamo and a trailing jamo, or a pair of the table
Composite(a, b) == IF LBase <= a /\ a < LBase + LCount /\ VBase <= b /\ b < VBase + VCount THEN SBase + ((a - LBase) * VCount + (b - VBase)) * TCount
                   ELSE IF IsSyllable(a) /\ (a - SBase) % TCount = 0 /\ TBase < b /\ b < TBase + TCount THEN a + (b - TBase)
                   ELSE TableComposite(a, b)

HasComposite(a, b) == Composite(a, b) # 0

\* every character replaced by its full canonical decomposition
RECURSIVE Decompose(_)
Decompose(s) == IF s = <<>> THEN <<>>
                ELSE IF IsSyllable(Head(s)) THEN HangulDecomposition(Head(s)) \o Decompose(Tail(s))
                ELSE IF Decomposition(Head(s)) = <<Head(s)>> THEN <<Head(s)>> \o Decompose(Tail(s))
                ELSE Decompose(Decomposition(Head(s)) \o Tail(s))

\* canonical ordering: marks of a run are sorted by class, stably
Misordered(s, i) == CombiningClass(s[i + 1]) > 0 /\ CombiningClass(s[i]) > CombiningClass(s[i + 1])

RECURSIVE CanonicalOrder(_)
CanonicalOrder(s) == IF \E i \in 1..(Len(s) - 1) : Misordered(s, i)
                     THEN LET i == CHOOSE j \in 1..(Len(s) - 1) : Misordered(s, j)
                          IN  CanonicalOrder([s EXCEPT ![i] = s[i + 1], ![i + 1] = s[i]])
                     ELSE s

\* canonical composition: out is what was composed so far, st the position in out of the last
\* starter (0: none); a character composes with that starter unless a character in between
\* blocks it
RECURSIVE ComposeFrom(_, _, _)
ComposeFrom(s, out, st) ==
    IF s = <<>> THEN out
    ELSE LET c == Head(s)
             blocked == st < Len(out) /\ CombiningClass(out[Len(out)]) >= CombiningClass(c)
         IN  IF st > 0 /\ ~blocked /\ HasComposite(out[st], c)
             THEN ComposeFrom(Tail(s), [out EXCEPT ![st] = Composite(out[st], c)], st)
             ELSE ComposeFrom(Tail(s), Append(out, c), IF CombiningClass(c) = 0 THEN Len(out) + 1 ELSE st)

\* the characters that may compose with a character before them: the second of a pair that
\* composes, the vowel jamo and the trailing jamo
CompositionSeconds == UNION {{p[1] : p \in {row[2][k] : k \in 1..Len(row[2])}} : row \in {PrimaryComposites[k] : k \in 1..Len(PrimaryComposites)}}
                      \cup (VBase..(VBase + VCount - 1)) \cup ((TBase + 1)..(TBase + TCount - 1))

\* the quick check property of c is Yes, c is left by normalization wherever it stands: it is no
\* second of a composition, and has no decomposition or is the composite of its decomposition
QuickCheckYes(c) == /\ c \notin CompositionSeconds
                    /\ \/ Decomposition(c) = <<c>>
                       \/ Len(Decomposition(c)) = 2 /\ TableComposite(Decomposition(c)[1], Decomposition(c)[Len(Decomposition(c))]) = c

\* is_normalized_quickcheck: every class that is not 0 is at least the one before it, and every
\* character has the quick check property Yes
QuickCheck(s) == \A k \in 1..Len(s) : /\ ~(k > 1 /\ CombiningClass(s[k]) # 0 /\ CombiningClass(s[IF k > 1 THEN k - 1 ELSE k]) > CombiningClass(s[k]))
                                      /\ QuickCheckYes(s[k])

\* a text that passes the quick check is returned as it is
NFC(s) == IF QuickCheck(s) THEN s
          ELSE ComposeFrom(CanonicalOrder(Decompose(s)), <<>>, 0)

(***************************************************************************)
(* chunk_text                                                              *)
(***************************************************************************)
EXCEL_CELL_LIMIT == 32767

\* range(0, len(s) + 1, size): the range run one position too far
ChunkStartsInclusive(n, size) == {i \in 0..n : i % size = 0}

\* range(0, len(s), size)
ChunkStarts(n, size) == {i \in 0..(n - 1) : i % size = 0}

Chunks(t, size) == IF ChunkStarts(Len(t), size) = {} THEN << <<>> >>
                   ELSE [k \in 1..Cardinality(ChunkStarts(Len(t), size)) |-> SubSeq(t, (k - 1) * size + 1, Min(k * size, Len(t)))]

\* chunk_text without line 72: the text is split as it was decoded
ChunkUnnormalized(s, size) == Chunks(s, size)

chunk_text(s, size) == Chunks(NFC(s), size)

(***************************************************************************)
(* to_dataframe: the table is its column names and its rows of cells       *)
(***************************************************************************)
FixedColumns == << <<"Path">>, <<"Homepage">>, <<"Name">>, <<"License">>, <<"Version">> >>

\* f"License_Chunk_{i+1}" for i in range(n)
ChunkColumns(n) == [k \in 1..n |-> <<"License_Chunk_", k>>]

\* max_chunks, lines 287-291
RECURSIVE MaxChunkCount(_)
MaxChunkCount(rows) == IF rows = <<>> THEN 0 ELSE Max(Max(0, Len(Head(rows)) - 5), MaxChunkCount(Tail(rows)))

\* r[k] if len(r) > k else "", for the 0-based index k
CellOr(r, k) == IF Len(r) > k THEN r[k + 1] ELSE <<>>

\* lines 296-304 without line 303: the chunks of a row are not padded
NormalizedRowUnpadded(r, width) == <<CellOr(r, 0), CellOr(r, 1), CellOr(r, 2), CellOr(r, 3), CellOr(r, 4)>> \o (IF Len(r) > 5 THEN Drop(r, 5) ELSE <<>>)

\* lines 296-304: one row padded to five cells and width chunk cells
NormalizedRow(r, width) == LET chunks == IF Len(r) > 5 THEN Drop(r, 5) ELSE <<>>
                           IN  <<CellOr(r, 0), CellOr(r, 1), CellOr(r, 2), CellOr(r, 3), CellOr(r, 4)>>
                               \o chunks \o [k \in 1..(width - Len(chunks)) |-> <<>>]

to_dataframe(rows) == IF rows = <<>> THEN [columns |-> FixedColumns \o ChunkColumns(1), data |-> <<>>]
                      ELSE [columns |-> FixedColumns \o ChunkColumns(MaxChunkCount(rows)),
                            data |-> [k \in 1..Len(rows) |-> NormalizedRow(rows[k], MaxChunkCount(rows))]]

(***************************************************************************)
(* File names                                                              *)
(***************************************************************************)
LICENSE_BASENAMES == {<<"l", "i", "c", "e", "n", "s", "e">>,
                      <<"l", "i", "c", "e", "n", "s", "e", ".", "t", "x", "t">>,
                      <<"l", "i", "c", "e", "n", "s", "e", ".", "m", "d">>,
                      <<"l", "i", "c", "e", "n", "c", "e">>,
                      <<"l", "i", "c", "e", "n", "c", "e", ".", "t", "x", "t">>,
                      <<"l", "i", "c", "e", "n", "c", "e", ".", "m", "d">>,
                      <<"c", "o", "p", "y", "i", "n", "g">>,
                      <<"c", "o", "p", "y", "i", "n", "g", ".", "t", "x", "t">>,
                      <<"c", "o", "p", "y", "i", "n", "g", ".", "m", "d">>}

PackageJson == <<"p", "a", "c", "k", "a", "g", "e", ".", "j", "s", "o", "n">>

Package == <<"p", "a", "c", "k", "a", "g", "e">>

MANIFEST_BASENAMES == {PackageJson, Package}

NodeModules == <<"n", "o", "d", "e", "_", "m", "o", "d", "u", "l", "e", "s">>

\* line 96
IsLicenseName(name) == Lower(name) \in LICENSE_BASENAMES \/ StartsWith(Lower(name), <<"l", "i", "c", "e", "n", "s", "e">>)

(***************************************************************************)
(* derive_package_name, on the components of the absolute path             *)
(***************************************************************************)
derive_package_name(pkg_dir) ==
    IF ~\E k \in 1..Len(pkg_dir) : pkg_dir[k] = NodeModules THEN pkg_dir[Len(pkg_dir)]
    ELSE LET idx == CHOOSE k \in 1..Len(pkg_dir) : pkg_dir[k] = NodeModules /\ \A j \in (k + 1)..Len(pkg_dir) : pkg_dir[j] # NodeModules
         IN  IF idx + 1 > Len(pkg_dir) THEN pkg_dir[Len(pkg_dir)]
             ELSE IF StartsWith(pkg_dir[idx + 1], <<"@">>) /\ idx + 2 <= Len(pkg_dir) THEN pkg_dir[idx + 1] \o <<"/">> \o pkg_dir[idx + 2]
             ELSE pkg_dir[idx + 1]

(***************************************************************************)
(* The file system.  A directory is the sequence of its entries in the     *)
(* order scandir lists them; an entry is a file with its content, a        *)
(* directory, or a symbolic link to a directory.  The content of a         *)
(* manifest file is the JSON value json.loads returns for it, or           *)
(* Unparsable; the content of any other file is its bytes.                 *)
(***************************************************************************)
File(name, data) == [name |-> name, kind |-> "file", to |-> "", data |-> data]

Dir(name, to) == [name |-> name, kind |-> "dir", to |-> to, data |-> JNull]

Link(name, to) == [name |-> name, kind |-> "link", to |-> to, data |-> JNull]

Unparsable == [t |-> "unparsable"]

Bytes(b) == [t |-> "bytes", b |-> b]

\* the absolute path of --root
RootPath == << <<"w">>, NodeModules >>

\* the number of symbolic links the system follows in one path before it
\* fails with ELOOP (Linux: 40); os.walk(followlinks=True) descends through
\* a link for as long as entry.is_dir() follows it
MAXSYMLINKS == 40

VARIABLES
    pc,             \* where main stands
    rootIsDir,      \* os.path.isdir(node_modules_root)
    fs,             \* the tree under the root: directory id -> entries
    order,          \* the iteration order of the set MANIFEST_BASENAMES in this process
    stack,          \* find_manifests: the directories os.walk has still to visit
    manifests,      \* list(find_manifests(root))
    i,              \* build_rows: the index of the manifest in hand
    meta,           \* build_rows: homepage, name, declared_license, version of that manifest
    lstack,         \* find_first_license: the directories os.walk has still to visit
    license_paths,  \* build_rows: the value license_path had for each row appended
    rows,           \* build_rows: rows
    table,          \* to_dataframe(rows)
    fn,             \* the function a call applies (specifications of single functions)
    arg,            \* its argument
    size,           \* its chunk size
    res             \* its result

vars == <<pc, rootIsDir, fs, order, stack, manifests, i, meta, lstack, license_paths, rows, table, fn, arg, size, res>>

call == <<fn, arg, size, res>>

(***************************************************************************)
(* os.walk(top, followlinks=True)                                          *)
(***************************************************************************)
EntryNamed(d, name) == LET k == CHOOSE j \in 1..Len(fs[d]) : fs[d][j].name = name IN fs[d][k]

\* the directory a path under the root names: the components are followed one
\* after the other, the first half of them and then the rest
RECURSIVE ResolveFrom(_, _)
ResolveFrom(d, rel) == IF rel = <<>> THEN d
                       ELSE IF Len(rel) = 1 THEN EntryNamed(d, rel[1]).to
                       ELSE CHOOSE to \in {ResolveFrom(mid, Drop(rel, Len(rel) \div 2)) : mid \in {ResolveFrom(d, Take(rel, Len(rel) \div 2))}} : TRUE

Resolve(path) == ResolveFrom("root", Drop(path, Len(RootPath)))

\* the symbolic links among the components of a path under the root
RECURSIVE LinksFrom(_, _)
LinksFrom(d, rel) == IF rel = <<>> THEN 0
                     ELSE IF Len(rel) = 1 THEN (IF EntryNamed(d, rel[1]).kind = "link" THEN 1 ELSE 0)
                     ELSE CHOOSE n \in {LinksFrom(d, Take(rel, Len(rel) \div 2)) + LinksFrom(mid, Drop(rel, Len(rel) \div 2)) : mid \in {ResolveFrom(d, Take(rel, Len(rel) \div 2))}} : TRUE

LinkCount(path) == LinksFrom("root", Drop(path, Len(RootPath)))

\* entry.is_dir(): true of a directory and of a link to one, unless following the link fails
IsDirEntry(top, e) == e.kind = "dir" \/ (e.kind = "link" /\ LinkCount(top) + 1 <= MAXSYMLINKS)

\* dirs and nondirs of one os.walk step, the names in listing order
DirNames(top) == LET es == SelectSeq(fs[Resolve(top)], LAMBDA e : IsDirEntry(top, e)) IN [k \in 1..Len(es) |-> es[k].name]

FileNames(top) == LET es == SelectSeq(fs[Resolve(top)], LAMBDA e : ~IsDirEntry(top, e)) IN [k \in 1..Len(es) |-> es[k].name]

\* the paths os.walk visits after top, before the rest of what it has pending
ChildPaths(top) == [k \in 1..Len(DirNames(top)) |-> Append(top, DirNames(top)[k])]

(***************************************************************************)
(* find_manifests and find_first_license, one directory of the walk        *)
(***************************************************************************)
\* lower_map[candidate]: the last file name that lowercases to it
LowerMapHas(filenames, candidate) == \E k \in 1..Len(filenames) : Lower(filenames[k]) = candidate

LowerMapGet(filenames, candidate) == filenames[CHOOSE k \in 1..Len(filenames) : Lower(filenames[k]) = candidate /\ \A j \in (k + 1)..Len(filenames) : Lower(filenames[j]) # candidate]

\* lines 80-85: what find_manifests yields for the directory top
ManifestsIn(top) == LET hits == SelectSeq(order, LAMBDA c : LowerMapHas(FileNames(top), c))
                    IN  [k \in 1..Len(hits) |-> Append(top, LowerMapGet(FileNames(top), hits[k]))]

\* lines 94-97: the first license-like file name of the directory top, <<>> when none
FirstLicenseIn(top) == LET hits == SelectSeq(FileNames(top), IsLicenseName) IN IF hits = <<>> THEN <<>> ELSE hits[1]

(***************************************************************************)
(* parse_manifest and the body of the loop of build_rows                   *)
(***************************************************************************)
\* os.path.dirname
Dirname(path) == Take(path, Len(path) - 1)

FileData(path) == EntryNamed(Resolve(Dirname(path)), path[Len(path)]).data

parse_manifest(manifest_path) == IF FileData(manifest_path).t = "unparsable" THEN JNull ELSE FileData(manifest_path)

\* (data.get(key) or "").strip() if data else ""
StrippedField(data, key) == IF ~Truthy(data) THEN JStr(<<>>)
                            ELSE IF ~IsDict(data) \/ ~IsStr(Or(Get(data, key), JStr(<<>>))) THEN Raise("AttributeError")
                            ELSE JStr(Strip(Or(Get(data, key), JStr(<<>>)).s))

\* x or ""
OrEmpty(v) == IF Truthy(v) THEN v.s ELSE <<>>

\* manifest_name or (derive_package_name(pkg_dir) or "")
NameOr(name, pkg_dir) == IF name # <<>> THEN name ELSE derive_package_name(pkg_dir)

\* lines 261-265: the four cells read from the manifest, or the first exception raised
Fields(pkg_dir, homepage, declared, name, version) ==
    IF IsRaise(homepage) THEN homepage
    ELSE IF IsRaise(declared) THEN declared
    ELSE IF IsRaise(name) THEN name
    ELSE IF IsRaise(version) THEN version
    ELSE [t |-> "meta", homepage |-> OrEmpty(homepage), name |-> NameOr(name.s, pkg_dir), license |-> OrEmpty(declared), version |-> version.s]

FieldsOf(pkg_dir, data) == Fields(pkg_dir, get_homepage(data), extract_license_value(data), StrippedField(data, "name"), StrippedField(data, "version"))

\* lines 258-265
Interpret(manifest_path) == FieldsOf(Dirname(manifest_path), parse_manifest(manifest_path))

\* f"[Skipped: {e}]" for the ValueError of read_text_file
SkippedBinary == <<91, 83, 107, 105, 112, 112, 101, 100, 58, 32, 66, 105, 110, 97, 114, 121, 32, 111, 114, 32, 110, 111, 110, 45, 116, 101, 120, 116, 32, 102, 105, 108, 101, 93>>

\* lines 271-275: the chunk cells for what read_text_file gave
ChunksOf(text) == IF IsRaise(text) THEN <<SkippedBinary>> ELSE chunk_text(text.s, EXCEL_CELL_LIMIT)

LicenseChunks(license_path) == ChunksOf(read_text(FileData(license_path).b))

\* lines 273-278 with the package directory as the path of every row
RowAtPackageDir(pkg_dir, m, license_path) == IF license_path # <<>>
                                            THEN <<pkg_dir, m.homepage, m.name, m.license, m.version>> \o LicenseChunks(license_path)
                                            ELSE <<pkg_dir, m.homepage, m.name, m.license, m.version>>

\* lines 273-278: the row appended; license_path is <<>> when find_first_license returned None
Row(pkg_dir, m, license_path) == IF license_path # <<>>
                                 THEN <<license_path, m.homepage, m.name, m.license, m.version>> \o LicenseChunks(license_path)
                                 ELSE <<pkg_dir, m.homepage, m.name, m.license, m.version>>

(***************************************************************************)
(* The trees the runs are checked on: a package directory left-pad with a  *)
(* sub-directory lib, and a scoped package @s/b.  What varies is which     *)
(* manifest files left-pad holds and what they contain, where a license    *)
(* file lies and what it contains, and whether lib holds a symbolic link   *)
(* to a directory.                                                         *)
(***************************************************************************)
LeftPadDoc == JObj([name |-> JStr(<<"l", "e", "f", "t", "-", "p", "a", "d">>), version |-> JStr(<<"1", ".", "3", ".", "0">>), license |-> JStr(<<"M", "I", "T">>)])

ManifestContents == {
    Unparsable,
    JObj(<<>>),
    JList(<<>>),
    JList(<<JNum(1)>>),
    JStr(<<"x">>),
    LeftPadDoc,
    JObj([version |-> JNum(1)]),
    JObj([name |-> JNum(5)]),
    JObj([homepage |-> JNum(5), name |-> JStr(<<" ">>), version |-> JNull]),
    JObj([repository |-> JObj([url |-> JNum(5)])]),
    JObj([repository |-> JStr(<<"g", "i", "t", "@", "g", "i", "t", "h", "u", "b", ".", "c", "o", "m", ":", "f", "o", "o", "/", "b", "a", "r", ".", "g", "i", "t">>)]),
    JObj([repository |-> JStr(<<"s", "s", "h", ":", "/", "/", "[", "h", "/", "p">>)]),
    JObj([licenses |-> JList(<<JObj([type |-> JStr(<<"M", "I", "T">>)]), JObj([type |-> JStr(<<"A", "p", "a", "c", "h", "e", "-", "2", ".", "0">>)])>>)])}

ManifestLayouts == {"none", "package.json", "package", "both", "Package.JSON"}

ManifestFiles(layout, doc) ==
    CASE layout = "none" -> <<>>
      [] layout = "package.json" -> <<File(PackageJson, doc)>>
      [] layout = "package" -> <<File(Package, doc)>>
      [] layout = "both" -> <<File(PackageJson, doc), File(Package, LeftPadDoc)>>
      [] layout = "Package.JSON" -> <<File(<<"P", "a", "c", "k", "a", "g", "e", ".", "J", "S", "O", "N">>, doc)>>

LicenseContents == {<<>>, <<101>>, <<101, 204, 129>>, <<204, 129, 101>>, <<0>>, <<101, 255>>}

\* where the license file lies: nowhere, in the package directory, or in its lib
LicenseLayouts == {"none", "LICENSE", "COPYING.md", "UNLICENSE", "lib/license-x"}

IndexJs == File(<<"i", "n", "d", "e", "x", ".", "j", "s">>, Bytes(<<>>))

TopLicenseFiles(layout, b) ==
    CASE layout = "LICENSE" -> <<File(<<"L", "I", "C", "E", "N", "S", "E">>, Bytes(b))>>
      [] layout = "COPYING.md" -> <<File(<<"C", "O", "P", "Y", "I", "N", "G", ".", "m", "d">>, Bytes(b))>>
      [] layout = "UNLICENSE" -> <<File(<<"U", "N", "L", "I", "C", "E", "N", "S", "E">>, Bytes(b))>>
      [] OTHER -> <<>>

LibLicenseFiles(layout, b) == IF layout = "lib/license-x" THEN <<File(<<"l", "i", "c", "e", "n", "s", "e", "-", "x">>, Bytes(b))>> ELSE <<>>

\* the link lib/up: absent (""), to the package directory above it ("pkg", a cycle), or to the scoped package ("inner")
LinkEntries(target) == IF target = "" THEN <<>> ELSE <<Link(<<"u", "p">>, target)>>

Tree(mlayout, doc, llayout, b, target) ==
    [root  |-> <<Dir(<<"l", "e", "f", "t", "-", "p", "a", "d">>, "pkg"), Dir(<<"@", "s">>, "scope")>>,
     pkg   |-> ManifestFiles(mlayout, doc) \o <<IndexJs>> \o TopLicenseFiles(llayout, b) \o <<Dir(<<"l", "i", "b">>, "lib")>>,
     lib   |-> LinkEntries(target) \o LibLicenseFiles(llayout, b),
     scope |-> <<Dir(<<"b">>, "inner")>>,
     inner |-> <<File(PackageJson, JObj(<<>>))>>]

\* every manifest layout and content, with and without a license file
ManifestTrees == {Tree(m, d, l, <<101>>, "") : m \in ManifestLayouts, d \in ManifestContents, l \in {"none", "LICENSE"}}

\* every place and content of the license file, without a link and with the link to the scoped package
LicenseTrees == {Tree(m, d, l, b, t) : m \in {"package.json", "both"}, d \in {LeftPadDoc, Unparsable}, l \in LicenseLayouts, b \in LicenseContents, t \in {"", "inner"}}

\* the link to the scoped package under every manifest layout
LinkTrees == {Tree(m, d, l, <<101, 204, 129>>, "inner") : m \in ManifestLayouts, d \in {LeftPadDoc, JList(<<JNum(1)>>)}, l \in {"none", "lib/license-x"}}

\* the link cycle: both walks pass through left-pad/lib/up again and again,
\* until the system follows no more links, so that the package is found
\* once more with every link followed; with a license file in the package
\* directory or in lib, with one that is no text, and with none, where
\* find_first_license walks the whole cycle for every manifest
CycleTrees == {Tree(m, d, l, <<101, 204, 129>>, "pkg") : m \in {"none", "package.json", "both"}, d \in {LeftPadDoc, JList(<<JNum(1)>>)}, l \in {"LICENSE", "lib/license-x"}}
              \cup {Tree("package.json", LeftPadDoc, "none", <<101>>, "pkg"), Tree("package.json", LeftPadDoc, "LICENSE", <<0>>, "pkg")}

Trees == ManifestTrees \cup LicenseTrees \cup LinkTrees \cup CycleTrees

\* the tree of a run whose root is no directory: nothing of it is read
NoTree == [root |-> <<>>]

\* the orders in which a process may iterate the set MANIFEST_BASENAMES
Orders == {<<PackageJson, Package>>, <<Package, PackageJson>>}

NoMeta == [t |-> "none"]

NoTable == [columns |-> <<>>, data |-> <<>>]

(***************************************************************************)
(* main                                                                    *)
(***************************************************************************)
IdleCall == fn = "" /\ arg = JNull /\ size = 0 /\ res = JNull

Init == /\ pc = "start"
        /\ rootIsDir \in BOOLEAN
        /\ fs \in (IF rootIsDir THEN Trees ELSE {NoTree})
        /\ order \in Orders
        /\ stack = <<>>
        /\ manifests = <<>>
        /\ i = 0
        /\ meta = NoMeta
        /\ lstack = <<>>
        /\ license_paths = <<>>
        /\ rows = <<>>
        /\ table = NoTable
        /\ IdleCall

\* lines 315-318: sys.exit(1) unless the root is a directory
RootCheck == /\ pc = "start"
             /\ pc' = IF rootIsDir THEN "scan" ELSE "exit1"
             /\ stack' = IF rootIsDir THEN <<RootPath>> ELSE <<>>
             /\ UNCHANGED <<rootIsDir, fs, order, manifests, i, meta, lstack, license_paths, rows, table, call>>

\* find_manifests: one directory of os.walk
ScanStep == /\ pc = "scan"
            /\ stack # <<>>
            /\ manifests' = manifests \o ManifestsIn(Head(stack))
            /\ stack' = ChildPaths(Head(stack)) \o Tail(stack)
            /\ UNCHANGED <<pc, rootIsDir, fs, order, i, meta, lstack, license_paths, rows, table, call>>

\* line 321-324: the generator is exhausted, build_rows starts
ScanDone == /\ pc = "scan"
            /\ stack = <<>>
            /\ pc' = "build"
            /\ i' = 1
            /\ UNCHANGED <<rootIsDir, fs, order, stack, manifests, meta, lstack, license_paths, rows, table, call>>

\* lines 258-268: the manifest in hand is read; an exception leaves build_rows and main
ReadManifest == /\ pc = "build"
                /\ i <= Len(manifests)
                /\ \E m \in {Interpret(manifests[i])} :
                      /\ meta' = m
                      /\ pc' = IF IsRaise(m) THEN "crashed" ELSE "locate"
                      /\ lstack' = IF IsRaise(m) THEN <<>> ELSE <<Dirname(manifests[i])>>
                /\ UNCHANGED <<rootIsDir, fs, order, stack, manifests, i, license_paths, rows, table, call>>

\* find_first_license: a directory of os.walk without a license-like file
LocateDescend == /\ pc = "locate"
                 /\ lstack # <<>>
                 /\ FirstLicenseIn(Head(lstack)) = <<>>
                 /\ lstack' = ChildPaths(Head(lstack)) \o Tail(lstack)
                 /\ UNCHANGED <<pc, rootIsDir, fs, order, stack, manifests, i, meta, license_paths, rows, table, call>>

\* find_first_license returns a path; lines 269-275 append the row
LocateFound == /\ pc = "locate"
               /\ lstack # <<>>
               /\ FirstLicenseIn(Head(lstack)) # <<>>
               /\ LET license_path == Append(Head(lstack), FirstLicenseIn(Head(lstack)))
                  IN  /\ rows' = Append(rows, Row(Dirname(manifests[i]), meta, license_path))
                      /\ license_paths' = Append(license_paths, license_path)
               /\ lstack' = <<>>
               /\ i' = i + 1
               /\ pc' = "build"
               /\ UNCHANGED <<rootIsDir, fs, order, stack, manifests, meta, table, call>>

\* find_first_license returns None; lines 276-278 append the row
LocateNone == /\ pc = "locate"
              /\ lstack = <<>>
              /\ rows' = Append(rows, Row(Dirname(manifests[i]), meta, <<>>))
              /\ license_paths' = Append(license_paths, <<>>)
              /\ i' = i + 1
              /\ pc' = "build"
              /\ UNCHANGED <<rootIsDir, fs, order, stack, manifests, meta, lstack, table, call>>

\* line 325: build_rows has returned
Frame == /\ pc = "build"
         /\ i > Len(manifests)
         /\ table' = to_dataframe(rows)
         /\ pc' = "write"
         /\ UNCHANGED <<rootIsDir, fs, order, stack, manifests, i, meta, lstack, license_paths, rows, call>>

\* lines 327-339: the workbook is written and main returns, or the writer
\* raises (the file --out names cannot be written, say) and the exception,
\* which nothing catches, leaves main
WriteWorkbook == /\ pc = "write"
                 /\ \E written \in BOOLEAN : pc' = IF written THEN "exit0" ELSE "crashed"
                 /\ UNCHANGED <<rootIsDir, fs, order, stack, manifests, i, meta, lstack, license_paths, rows, table, call>>

Next == \/ RootCheck
        \/ ScanStep
        \/ ScanDone
        \/ ReadManifest
        \/ LocateDescend
        \/ LocateFound
        \/ LocateNone
        \/ Frame
        \/ WriteWorkbook

Spec == Init /\ [][Next]_vars

(***************************************************************************)
(* The calls the single functions are checked on.  A repository URL is a   *)
(* prefix, a scheme or shorthand, a body and a suffix; a manifest document *)
(* is an object of the fields the function reads, a missing field being    *)
(* one whose value is null (dict.get gives None for both).  Among the      *)
(* prefixes and suffixes are a vertical tab (11) and a unit separator (31),*)
(* which str.strip() removes; among the bodies are bracketed hosts: IPv6   *)
(* with a zone, IPvFuture, IPv6 with an IPv4 suffix, IPv4, and unclosed.   *)
(***************************************************************************)
UrlPrefixes == {<<>>, <<"g", "i", "t", "+">>, <<"">>}

UrlSchemes == {<<>>, <<"s", "s", "h", ":", "/", "/">>, <<"g", "i", "t", "@">>, <<"h", "t", "t", "p", "s", ":", "/", "/">>, <<"h", "t", "t", "p", ":", "/", "/">>, <<"g", "i", "t", "h", "u", "b", ":">>, <<"G", "i", "t", "L", "a", "b", ":">>, <<"f", "o", "o", ":">>}

UrlBodies == {<<>>, <<"g", "i", "t", "h", "u", "b", ".", "c", "o", "m", "/", "f", "o", "o", "/", "b", "a", "r">>, <<"g", "i", "t", "@", "g", "i", "t", "h", "u", "b", ".", "c", "o", "m", "/", "f", "o", "o", "/", "b", "a", "r">>, <<"g", "i", "t", "h", "u", "b", ".", "c", "o", "m", ":", "f", "o", "o", "/", "b", "a", "r">>, <<"[", "h", "/", "p">>, <<"/", "p">>, <<"H", ".", "c", "o", "m", ":", "2", "2", "/", "p">>, <<"f", "o", "o", "/", "b", "a", "r">>, <<"[", "F", "E", "8", "0", ":", ":", "1", "%", "E", "t", "h", "0", "]", "/", "p">>, <<"[", "v", "1", ".", "x", "]", "/", "p">>, <<"[", ":", ":", "f", "f", "f", "f", ":", "1", ".", "2", ".", "3", ".", "4", "]", "/", "p">>, <<"[", "1", ".", "2", ".", "3", ".", "4", "]", "/", "p">>}

UrlSuffixes == {<<>>, <<".", "g", "i", "t">>, <<" ">>, <<"">>}

Urls == {p \o s \o b \o x : p \in UrlPrefixes, s \in UrlSchemes, b \in UrlBodies, x \in UrlSuffixes}

\* the values of the field repository: absent, a string, an object with or without url, others
RepositoryValues == {JNull, JNum(5), JBool(TRUE), JList(<<>>), JObj(<<>>), JObj([url |-> JNull]), JObj([url |-> JNum(5)]), JObj([url |-> JList(<<JNum(1)>>)])}
                    \cup {JStr(u) : u \in Urls} \cup {JObj([url |-> JStr(u)]) : u \in Urls}

HomepageValues == {JNull, JStr(<<>>), JStr(<<" ">>), JStr(<<" ", "h", "t", "t", "p", "s", ":", "/", "/", "x", ".", "i", "o", " ">>), JNum(5), JStr(<<"">>)}

HomepageRepositories == {JNull, JNum(5), JObj([url |-> JNum(5)]), JStr(<<"g", "i", "t", "@", "g", "i", "t", "h", "u", "b", ".", "c", "o", "m", ":", "f", "o", "o", "/", "b", "a", "r", ".", "g", "i", "t">>), JObj([url |-> JStr(<<"g", "i", "t", "+", "s", "s", "h", ":", "/", "/", "g", "i", "t", "@", "g", "i", "t", "h", "u", "b", ".", "c", "o", "m", "/", "f", "o", "o", "/", "b", "a", "r", ".", "g", "i", "t">>)]), JStr(<<"s", "s", "h", ":", "/", "/", "[", "h", "/", "p">>), JStr(<<"s", "s", "h", ":", "/", "/", "h">>), JStr(<<"f", "o", "o">>), JStr(<<"g", "i", "t", "h", "u", "b", ":", "a", "/", "b">>)}

HomepageDocs == {JNull, JObj(<<>>)} \cup {JObj([homepage |-> h, repository |-> r]) : h \in HomepageValues, r \in HomepageRepositories}

\* the values of the fields license and licence
LicenseValues == {JNull, JStr(<<>>), JStr(<<" ">>), JStr(<<"M", "I", "T">>), JStr(<<" ", "M", "I", "T", " ">>), JNum(5), JList(<<JStr(<<"M", "I", "T">>)>>), JObj(<<>>), JObj([type |-> JStr(<<"M", "I", "T">>)]), JObj([type |-> JNum(5), name |-> JStr(<<"I", "S", "C">>)]), JObj([type |-> JStr(<<" ">>), value |-> JStr(<<" ", "B", "S", "D", " ">>)]), JObj([name |-> JStr(<<"I", "S", "C">>), spdx |-> JStr(<<"X">>)]), JObj([spdx |-> JNull]), JStr(<<"", "M", "I", "T", "">>)}

\* the values of the field licenses
LicensesValues == {JNull, JList(<<>>), JStr(<<"M", "I", "T">>), JList(<<JStr(<<" ", "M", "I", "T", " ">>)>>), JList(<<JObj([type |-> JStr(<<"M", "I", "T">>)]), JObj([type |-> JStr(<<"A", "p", "a", "c", "h", "e", "-", "2", ".", "0">>)])>>), JList(<<JObj([type |-> JNum(5), name |-> JStr(<<"I", "S", "C">>)])>>), JList(<<JStr(<<" ">>), JNum(1), JObj([type |-> JStr(<<" ">>), name |-> JStr(<<"I", "S", "C">>)])>>), JList(<<JObj([value |-> JStr(<<"B", "S", "D">>)]), JStr(<<"M", "I", "T">>), JObj([spdx |-> JStr(<<" ", "X", " ">>)])>>)}

LicenseDocs == {JNull, JObj(<<>>)} \cup {JObj([license |-> a, licence |-> b, licenses |-> c]) : a \in LicenseValues, b \in LicenseValues, c \in LicensesValues}

(***************************************************************************)
(* The license files the decoder and chunk_text are checked on: up to      *)
(* MaxPieces pieces, a piece being the bytes of a character or bytes that  *)
(* are no UTF-8.                                                           *)
(*   101 e   204 129 combining acute   195 169 e-acute   224 165 152 qa    *)
(*   204 167 combining cedilla (class 202, ordered before the acute)       *)
(*   0 NUL   255 never valid   four times 255: one short of the threshold  *)
(***************************************************************************)
MaxPieces == 3

FilePieces == {<<101>>, <<204, 129>>, <<195, 169>>, <<224, 165, 152>>, <<204, 167>>, <<0>>, <<255>>, <<255, 255, 255, 255>>}

RawFiles == UNION {{Concat(f) : f \in [1..n -> FilePieces]} : n \in 0..MaxPieces}

MaxSize == 3

\* the chunk sizes: the small ones, and the one build_rows passes
ChunkSizes == (1..MaxSize) \cup {EXCEL_CELL_LIMIT}

\* texts as long as a cell, one character shorter and one longer
LongTexts == {[k \in 1..n |-> 97] : n \in {EXCEL_CELL_LIMIT - 1, EXCEL_CELL_LIMIT, EXCEL_CELL_LIMIT + 1}}

(***************************************************************************)
(* The row lists to_dataframe is checked on: up to MaxRows rows as         *)
(* build_rows appends them, five cells and up to MaxChunks chunks, the     *)
(* chunks of the rows of package b empty texts.                            *)
(***************************************************************************)
MaxRows == 3

MaxChunks == 2

SampleRow(id, c) == << <<RootPath[1], NodeModules, <<id>> >>, <<>>, <<id>>, <<"M", "I", "T">>, <<"1">> >> \o [k \in 1..c |-> IF id = "b" THEN <<>> ELSE <<96 + k>>]

SampleRows == {SampleRow(id, c) : id \in {"a", "b"}, c \in 0..MaxChunks}

RowLists == UNION {[1..n -> SampleRows] : n \in 0..MaxRows}

(***************************************************************************)
(* One call of one function: its argument is drawn, the function is        *)
(* applied, and res holds what it returned or raised.                      *)
(***************************************************************************)
IdlePipeline == /\ rootIsDir = FALSE
                /\ fs = NoTree
                /\ order = <<PackageJson, Package>>
                /\ stack = <<>>
                /\ manifests = <<>>
                /\ i = 0
                /\ meta = NoMeta
                /\ lstack = <<>>
                /\ license_paths = <<>>
                /\ rows = <<>>
                /\ table = NoTable

CallInit == /\ pc = "call"
            /\ IdlePipeline
            /\ res = JNull
            /\ \/ fn = "derive_homepage_from_repository" /\ arg \in RepositoryValues /\ size = 0
               \/ fn = "get_homepage" /\ arg \in HomepageDocs /\ size = 0
               \/ fn = "extract_license_value" /\ arg \in LicenseDocs /\ size = 0
               \/ fn = "read_text_file" /\ arg \in RawFiles /\ size \in ChunkSizes
               \/ fn = "chunk_text" /\ arg \in LongTexts /\ size = EXCEL_CELL_LIMIT
               \/ fn = "to_dataframe" /\ arg \in RowLists /\ size = 0

CallDeriveHomepage == /\ pc = "call"
                      /\ fn = "derive_homepage_from_repository"
                      /\ res' = derive_homepage_from_repository(arg)
                      /\ pc' = "returned"
                      /\ UNCHANGED <<rootIsDir, fs, order, stack, manifests, i, meta, lstack, license_paths, rows, table, fn, arg, size>>

CallGetHomepage == /\ pc = "call"
                   /\ fn = "get_homepage"
                   /\ res' = get_homepage(arg)
                   /\ pc' = "returned"
                   /\ UNCHANGED <<rootIsDir, fs, order, stack, manifests, i, meta, lstack, license_paths, rows, table, fn, arg, size>>

CallExtractLicense == /\ pc = "call"
                      /\ fn = "extract_license_value"
                      /\ res' = extract_license_value(arg)
                      /\ pc' = "returned"
                      /\ UNCHANGED <<rootIsDir, fs, order, stack, manifests, i, meta, lstack, license_paths, rows, table, fn, arg, size>>

\* line 271: the bytes are decoded; line 272 then calls chunk_text on the text, line 274 catches what was raised
CallReadTextFile == /\ pc = "call"
                    /\ fn = "read_text_file"
                    /\ \E text \in {read_text(arg)} :
                          IF IsRaise(text)
                          THEN res' = text /\ pc' = "returned" /\ UNCHANGED <<fn, arg>>
                          ELSE res' = JNull /\ pc' = "call" /\ fn' = "chunk_text" /\ arg' = text.s
                    /\ UNCHANGED <<rootIsDir, fs, order, stack, manifests, i, meta, lstack, license_paths, rows, table, size>>

CallChunkText == /\ pc = "call"
                 /\ fn = "chunk_text"
                 /\ res' = chunk_text(arg, size)
                 /\ pc' = "returned"
                 /\ UNCHANGED <<rootIsDir, fs, order, stack, manifests, i, meta, lstack, license_paths, rows, table, fn, arg, size>>

CallToDataframe == /\ pc = "call"
                   /\ fn = "to_dataframe"
                   /\ res' = to_dataframe(arg)
                   /\ pc' = "returned"
                   /\ UNCHANGED <<rootIsDir, fs, order, stack, manifests, i, meta, lstack, license_paths, rows, table, fn, arg, size>>

CallNext == \/ CallDeriveHomepage
            \/ CallGetHomepage
            \/ CallExtractLicense
            \/ CallReadTextFile
            \/ CallChunkText
            \/ CallToDataframe

SpecCalls == CallInit /\ [][CallNext]_vars

(***************************************************************************)
(* The runs of main: what the specification says of them                   *)
(***************************************************************************)
\* build_rows has returned or was left by an exception
BuildRowsOver == pc \in {"write", "exit0", "crashed"}

\* row k was built for manifest k: its path is the package directory or lies in it
RowIsFor(k) == StartsWith(rows[k][1], Dirname(manifests[k]))

\* C1: for every sequence of discovered manifests handed to build_rows, the
\* row list that results has exactly one row per manifest, in the same order.
C1_OneRowPerManifest == BuildRowsOver => (Len(rows) = Len(manifests) /\ \A k \in 1..Len(rows) : RowIsFor(k))

\* C2: once the root check has passed, nothing raised while one package is
\* processed aborts the run: main is never left by an exception, so the only
\* way in which a run ends other than by exit code 0 is the root not being a
\* directory.
C2_NoPackageAbortsTheRun == pc # "crashed" /\ (pc = "exit1" => ~rootIsDir)

\* the decoded text of the license file of row k, or the exception the decoder raised
DecodedLicense(k) == read_text(FileData(license_paths[k]).b)

\* the chunk cells of row k
ChunkCells(k) == Drop(rows[k], 5)

\* C8: in every row build_rows appends, the chunk list is empty exactly when
\* the path is the package directory itself, which is exactly when no license
\* file was found; when one was found the path is that file's path and the
\* row has at least one chunk: chunks that join to the normalized text when
\* the file decodes, the one placeholder chunk when it does not.
C8_ChunksEmptyIffPackageDir ==
    /\ Len(license_paths) = Len(rows)
    /\ \A k \in 1..Len(rows) :
          /\ ChunkCells(k) = <<>> <=> rows[k][1] = Dirname(manifests[k])
          /\ rows[k][1] = Dirname(manifests[k]) <=> license_paths[k] = <<>>
          /\ license_paths[k] # <<>> =>
                /\ rows[k][1] = license_paths[k]
                /\ Len(ChunkCells(k)) >= 1
                /\ IsRaise(DecodedLicense(k)) => ChunkCells(k) = <<SkippedBinary>>
                /\ ~IsRaise(DecodedLicense(k)) => Concat(ChunkCells(k)) = NFC(DecodedLicense(k).s)

\* a finished run with a row without license file and a row that holds the placeholder
C8_RowsOfBothKinds == /\ pc = "exit0"
                      /\ \E k \in 1..Len(rows) : license_paths[k] = <<>> /\ Len(rows[k]) = 5
                      /\ \E k \in 1..Len(rows) : license_paths[k] # <<>> /\ Len(rows[k]) = 6 /\ rows[k][6] = SkippedBinary

\* main has a step to take: the positions in which the guard of an action of Next holds
\* (in scan, build and locate the guards of the actions of that position cover every state)
HasStep == pc \in {"start", "scan", "build", "locate", "write"}

\* C10: for every finite tree under an existing root, symbolic links to
\* directories included, the run terminates with the table written: the
\* walks of find_manifests and find_first_license end, and as long as the
\* process has not exited with the table written, main has a step to take.
C10_RunEndsWithTableWritten == rootIsDir => (pc = "exit0" \/ HasStep)

(***************************************************************************)
(* The single functions: what the specification says of them               *)
(***************************************************************************)
Returned(f) == pc = "returned" /\ fn = f

\* C3: URL normalization never ends in an error: for every value of the
\* field repository, derive_homepage_from_repository (and get_homepage, which
\* calls it) returns a homepage string or no homepage, and never raises.
C3_NormalizationNeverRaises == (Returned("derive_homepage_from_repository") \/ Returned("get_homepage")) => (res = JNull \/ IsStr(res))

\* the url of a repository value that is a string, trimmed and without a leading git+
GivenUrl == IF StartsWith(Strip(arg.s), <<"g", "i", "t", "+">>) THEN Drop(Strip(arg.s), 4) ELSE Strip(arg.s)

\* rule 2: host and path of an ssh:// URL; a URL they cannot be extracted from is malformed
SshOutcome(parsed) == IF IsRaise(parsed) THEN JNull
                      ELSE IF parsed.hostname = <<>> \/ SshPath(parsed) = <<>> THEN JNull
                      ELSE JStr(HttpsPrefix \o parsed.hostname \o <<"/">> \o SshPath(parsed))

\* rule 5 and rule 6
ShorthandOutcome(url) == IF Find(url, ":") > 1 /\ Lower(Before(url, ":")) \in DOMAIN host_map /\ After(url, ":") # <<>>
                         THEN JStr(HttpsPrefix \o host_map[Lower(Before(url, ":"))] \o <<"/">> \o After(url, ":"))
                         ELSE JNull

\* the outcome of the first rule of the chain that matches, and of no other
FirstMatchingRule(url) ==
    CASE StartsWith(url, <<"s", "s", "h", ":", "/", "/">>) -> SshOutcome(urlparse(url))
      [] ~StartsWith(url, <<"s", "s", "h", ":", "/", "/">>) /\ GitAtMatches(url) -> JStr(HttpsPrefix \o GitAtHost(url) \o <<"/">> \o StripDotGit(GitAtPath(url)))
      [] ~StartsWith(url, <<"s", "s", "h", ":", "/", "/">>) /\ ~GitAtMatches(url) /\ (StartsWith(url, HttpPrefix) \/ StartsWith(url, HttpsPrefix)) -> JStr(StripDotGit(url))
      [] OTHER -> ShorthandOutcome(url)

\* C5: for every repository URL, derive_homepage_from_repository gives the
\* outcome of only the first matching rule of the chain applied after the
\* leading git+ is stripped: ssh://, then git@host:path, then http(s)://, then
\* the host-key shorthand, else no homepage; an ssh:// URL whose host or path
\* is empty yields no homepage.
C5_FirstMatchingRuleOnly == (Returned("derive_homepage_from_repository") /\ IsStr(arg) /\ Strip(arg.s) # <<>>) => res = FirstMatchingRule(GivenUrl)

\* a value that is a string which is not empty once trimmed
NonBlankString(v) == IsStr(v) /\ Strip(v.s) # <<>>

Trimmed(v) == JStr(Strip(v.s))

Least(S) == CHOOSE x \in S : \A y \in S : x <= y

\* the sub-keys of an object whose value is a non-blank string, by their rank in type, name, spdx, value
StringKeys(obj) == {k \in 1..Len(LicenseKeys) : NonBlankString(Get(obj, LicenseKeys[k]))}

FirstStringOf(obj) == IF StringKeys(obj) = {} THEN JNull ELSE Trimmed(Get(obj, LicenseKeys[Least(StringKeys(obj))]))

\* the sub-keys of an object whose value is truthy
TruthyKeys(obj) == {k \in 1..Len(LicenseKeys) : Truthy(Get(obj, LicenseKeys[k]))}

FirstTruthyOf(obj) == IF TruthyKeys(obj) = {} THEN JNull ELSE Get(obj, LicenseKeys[Least(TruthyKeys(obj))])

\* the surviving values of a list of entry values, joined
Joined(values) == IF SelectSeq(values, NonBlankString) = <<>> THEN JNull
                  ELSE JStr(Join(<<";", " ">>, [k \in 1..Len(SelectSeq(values, NonBlankString)) |-> Strip(SelectSeq(values, NonBlankString)[k].s)]))

\* an entry of licenses as rule (c) of the specification reads it: an object as in rule (b)
EntryAsInB(e) == IF IsStr(e) THEN e ELSE IF IsDict(e) THEN FirstStringOf(e) ELSE JNull

\* an entry of licenses as the amended rule (c) reads it: an object gives its first truthy sub-key
EntryFirstTruthy(e) == IF IsStr(e) THEN e ELSE IF IsDict(e) THEN FirstTruthyOf(e) ELSE JNull

\* rules (a), (b), (c) as the specification states them
StatedLicenseRule(data) ==
    IF ~Truthy(data) THEN JNull
    ELSE IF NonBlankString(Get(data, "license")) THEN Trimmed(Get(data, "license"))
    ELSE IF IsDict(Get(data, "license")) /\ StringKeys(Get(data, "license")) # {} THEN FirstStringOf(Get(data, "license"))
    ELSE IF IsDict(Get(data, "licence")) /\ StringKeys(Get(data, "licence")) # {} THEN FirstStringOf(Get(data, "licence"))
    ELSE IF IsList(Get(data, "licenses")) THEN Joined([k \in 1..Len(Get(data, "licenses").l) |-> EntryAsInB(Get(data, "licenses").l[k])])
    ELSE JNull

\* the field rules (a) and (b) read: license when it is truthy, else licence
DeclaredField(data) == IF Truthy(Get(data, "license")) THEN Get(data, "license") ELSE Get(data, "licence")

\* rules (a), (b), (c) amended
AmendedLicenseRule(data) ==
    IF ~Truthy(data) THEN JNull
    ELSE IF NonBlankString(DeclaredField(data)) THEN Trimmed(DeclaredField(data))
    ELSE IF IsDict(DeclaredField(data)) /\ StringKeys(DeclaredField(data)) # {} THEN FirstStringOf(DeclaredField(data))
    ELSE IF IsList(Get(data, "licenses")) THEN Joined([k \in 1..Len(Get(data, "licenses").l) |-> EntryFirstTruthy(Get(data, "licenses").l[k])])
    ELSE JNull

\* C4 as stated: extract_license_value returns the result of the first
\* satisfied rule among (a) the license field when a non-empty string, (b)
\* the license or licence field when an object, by its first non-empty string
\* among type, name, spdx, value, (c) the values of the entries of licenses,
\* an object entry read as in (b), joined by "; "; absent if none applies.
C4_StatedLicenseRule == Returned("extract_license_value") => res = StatedLicenseRule(arg)

\* C4 amended: rules (a) and (b) read the field license when it is truthy and
\* the field licence otherwise, (a) giving the trimmed string when it is not
\* blank; an object entry of licenses gives its first truthy value among
\* type, name, spdx, value, which survives only as a non-blank string.
C4_AmendedLicenseRule == Returned("extract_license_value") => res = AmendedLicenseRule(arg)

\* the spelling licence holds a string and the field license is absent: the string is the result
C4_LicenceStringRead == /\ Returned("extract_license_value")
                        /\ Truthy(arg)
                        /\ Get(arg, "license") = JNull
                        /\ Get(arg, "licence") = JStr(<<" ", "M", "I", "T", " ">>)
                        /\ res = JStr(<<"M", "I", "T">>)

\* C6 as stated: for every license text the decoder accepts, the chunks
\* chunk_text produces, concatenated in order, are the decoded text exactly.
C6_ChunksRejoinToDecodedText == Returned("chunk_text") => Concat(res) = arg

\* C6 amended: the chunks, concatenated in order, are the canonical composed
\* form (NFC) of the decoded text, which is the decoded text itself only when
\* that text is in the composed form already.
C6_ChunksRejoinToComposedText == Returned("chunk_text") => \E composed \in {NFC(arg)} : Concat(res) = composed /\ (Concat(res) = arg <=> composed = arg)

\* a decoded text that composition changes, split into several chunks
C6_ComposedTextInChunks == Returned("chunk_text") /\ NFC(arg) # arg /\ Len(res) >= 2

CeilDiv(a, b) == (a + b - 1) \div b

\* the chunks of a text of l characters at size n: their number, their lengths, and the boundary cases
ChunkShape(l, n) == /\ Len(res) = Max(1, CeilDiv(l, n))
                    /\ \A k \in 1..Len(res) : Len(res[k]) <= n /\ (k < Len(res) => Len(res[k]) = n)
                    /\ l = n => Len(res) = 1
                    /\ l = n + 1 => (Len(res) = 2 /\ Len(res[2]) = 1)
                    /\ l = 0 => res = << <<>> >>

\* C7 as stated: a license text of L characters gives max(1, ceil(L/N))
\* chunks at chunk size N, each of at most N characters and all but the last
\* of exactly N: one chunk for N characters, two for N+1 with one character
\* in the second, one empty chunk for the empty text.
C7_ChunkCountOfText == Returned("chunk_text") => ChunkShape(Len(arg), size)

\* C7 amended: L is the number of characters of the canonical composed form
\* (NFC) of the text, which can be smaller or greater than that of the text.
C7_ChunkCountOfComposedText == Returned("chunk_text") => \E l \in {Len(NFC(arg))} : ChunkShape(l, size)

\* a text one character longer than a cell, split at the size build_rows passes
C7_TextOneOverCellLimit == Returned("chunk_text") /\ size = EXCEL_CELL_LIMIT /\ Len(arg) = EXCEL_CELL_LIMIT + 1 /\ Len(res) = 2 /\ Len(res[2]) = 1

\* the number of chunks of a record
ChunkCount(r) == Len(r) - 5

\* M: the greatest chunk count of the records, 0 when there is none
GreatestChunkCount(records) == IF records = <<>> THEN 0 ELSE CHOOSE m \in {ChunkCount(records[k]) : k \in 1..Len(records)} : \A k \in 1..Len(records) : ChunkCount(records[k]) <= m

\* row k of the table is record k: its five cells, its chunks in order, then empty cells only
RowOfRecord(k) == /\ Len(res.data[k]) = 5 + GreatestChunkCount(arg)
                  /\ \A c \in 1..Len(arg[k]) : res.data[k][c] = arg[k][c]
                  /\ \A c \in (Len(arg[k]) + 1)..Len(res.data[k]) : res.data[k][c] = <<>>

\* C9: to_dataframe emits a rectangular table: with M the greatest chunk
\* count of the records, every row has 5 + M cells, the five of the record,
\* its chunks in order and then only empty padding, the header has the five
\* fixed columns and one chunk column per index 1..M, and there is one row per
\* record; for no record the header has the five fixed columns and exactly
\* one chunk column, and there is no row.
C9_TableIsRectangular ==
    Returned("to_dataframe") =>
        /\ Len(res.data) = Len(arg)
        /\ \A k \in 1..Len(arg) : RowOfRecord(k)
        /\ arg # <<>> => res.columns = FixedColumns \o [c \in 1..GreatestChunkCount(arg) |-> <<"License_Chunk_", c>>]
        /\ arg = <<>> => res.columns = FixedColumns \o << <<"License_Chunk_", 1>> >>

\* records of different chunk counts: a row of the table ends in padding
C9_RowPadded == /\ Returned("to_dataframe")
                /\ \E j, k \in 1..Len(arg) : ChunkCount(arg[j]) = 0 /\ ChunkCount(arg[k]) = MaxChunks /\ Len(res.data[j]) = 5 + MaxChunks

====
